---- MODULE Spec2Model ----
(***************************************************************************)
(* Verification model of the KryptChain ledger core.                       *)
(*                                                                         *)
(* StateManager (src/src/blockchain/StateManager.ts): accounts are         *)
(* JavaScript objects; the account cache holds references to them, the     *)
(* persistent store holds copies of their values.  The model keeps a heap  *)
(* of account objects so that an in-place mutation of a cached object is   *)
(* visible through the cache, as it is in the program.                     *)
(***************************************************************************)
EXTENDS Integers, Sequences, FiniteSets, TLC

\* ------------------------------------------------------------------ bounds
MaxValue == 1
MaxFee == 1
MaxBalance == 2
MaxNonce == 2
MaxBlockTxs == 2
MaxBlockFee == 0
MaxBlockBalance == 1
MaxOps == 3
MaxSize == 2            \* the maxSize the event-emitting pool is constructed with
MaxAmount == 1          \* largest amount and chain balance of the pool's inputs
MaxTicks == 1           \* the clock runs for MaxTicks max ages
Quorum == 2             \* the requiredValidations the ConsensusEngine is constructed with
MaxStamp == 1           \* block timestamps are 0..MaxStamp
MaxItems == 4           \* longest array passed to merkleHash
MaxItem == 3            \* the array's items are 1..MaxItem
MaxEntryFee == 2        \* pool entries pay fees 0..MaxEntryFee
MaxEntrySize == 2       \* and have sizes 1..MaxEntrySize
MaxEntries == 3         \* longest pool handed out for block proposal
MaxValidators == 2      \* longest validator array a ConsensusEngine is constructed with
MaxStorageCalls == 3    \* initialize and addBlock calls made on a BlockchainStorage
MaxCoreCalls == 3       \* addTransaction and minePendingTransactions calls on a BlockchainCore
MaxMineSteps == 2       \* nonces mineBlock tries before one meets the target
MaxDifficulty == 1      \* a NetworkNode is configured with difficulty 0..MaxDifficulty
MaxPerBlock == 2        \* and maxTransactionsPerBlock 1..MaxPerBlock
MaxMessages == 4        \* messages a NetworkNode receives

\* ------------------------------------------------------- program constants
CacheSize == 1000
MAX_AGE_MS == 3600000
MAX_SIZE_BYTES == 5000000
maxPoolSize == 1000
maxTxSize == 1000000
minFee == 1000
TX_FUTURE_MS == 300000
maxBlockSize == 1000000
BLOCK_FUTURE_MS == 120000

\* ------------------------------------------------------------------ values
None == "none"
Addr == {"a1", "a2"}
Values == 0..MaxValue
Fees == 0..MaxFee
Tx == [from : Addr, to : Addr, value : Values, fee : Fees]
Genesis == "h0"
Hashes == {"h0", "h1"}
GenesisBlock == [hash |-> Genesis, parentHash |-> None, transactions |-> <<>>]

Procs == {"p1", "p2"}
SeqProc == "seq"
\* Object identities: the object a cache entry holds after an operation has
\* returned, and the objects a running call creates for sender and recipient.
CachedOid(a) == <<"c", a>>
LocalOid(p, k) == <<p, k>>

VARIABLES
  heap,          \* the account objects: a function from some Oids to account records
  stateCache,    \* StateManager.stateCache: a function from the cached addresses to Oids
  db,            \* the store's accounts: a function from the stored addresses to records
  currentBlock,  \* hash or None: StateManager.currentBlock
  blockCache,    \* the hashes StateManager.blockCache holds (its object for blk.hash is blk)
  blockStore,    \* the store's blocks: a function from the stored hashes to block copies
  blk,           \* the block object the caller holds (cached by reference)
  last,          \* the last operation: its name, argument and error
  ops,           \* the number of block operations called so far
  pre,           \* the accounts as they were when the last commitBlock was called
  calls,         \* the applyTransaction calls in flight: each one's position and locals
  start,         \* the StateManager and store when the concurrent calls were started
  requests,      \* the calls waiting for the store, in the order of their requests
  transactions,  \* the event-emitting TransactionPool's map: hash -> pool entry
  now,           \* Date.now()
  transactions2, \* the second TransactionPool's map: hash -> transaction
  poolLast,      \* the last pool call: what it returned, threw and emitted
  adds,          \* the addTransaction calls in flight on the event-emitting pool
  balance,       \* what Blockchain.getAddressBalance answers for each address
  validators,    \* ConsensusEngine.validators
  requiredValidations,
  pendingBlocks, \* ConsensusEngine.pendingBlocks: hash -> block
  validations,   \* ConsensusEngine.validations: hash -> set of validator keys
  validationsOrder, \* the keys of validations in insertion order
  finalized,     \* the blocks getFinalizedBlocks has returned so far
  consLast,      \* the last ConsensusEngine call and its result
  headValidators, \* the chain-head ConsensusEngine's validators
  headPending,   \* the chain-head ConsensusEngine's pendingBlocks: hash -> block
  headCurrent,   \* its currentBlock: <<>> for null, <<block>> otherwise
  chainHead,     \* its chainHead
  headLast,      \* its last call: what it returned, threw and emitted
  vTx,           \* the transaction a validator is called with
  vBlock,        \* the block a validator is called with: <<>> for none, <<block>> otherwise
  vPrev,         \* the previousBlock argument: <<>> for none, <<block>> otherwise
  vNow,          \* Date.now() during the validator call
  vOut,          \* what the validator call returned or threw: <<>> before the call
  mItems,        \* the array merkleHash is called with
  mFirst,        \* what the first CryptographicHash.merkleHash returned: <<>> before the call
  mSecond,       \* what the second CryptographicHash.merkleHash returned
  poolEntries,   \* the values of a TransactionPool's map, in insertion order
  mempool,       \* PerformanceOptimizer.mempool
  handed,        \* the array the last retrieval call returned: <<>> before the call
  storageChain,  \* BlockchainStorage.chain
  storageCalls,  \* the initialize and addBlock calls made so far: position and locals
  coreChain,     \* BlockchainCore.chain; a block's transactions field names an array
  coreArrays,    \* the transaction arrays BlockchainCore has created, by creation order
  corePending,   \* the array BlockchainCore.pendingTransactions refers to
  coreCalls,     \* the addTransaction and minePendingTransactions calls made so far
  netConfig,     \* NetworkNode.config: difficulty and maxTransactionsPerBlock
  netBlockchain, \* NetworkNode.blockchain
  netPending,    \* NetworkNode.pendingTransactions
  netCalls,      \* the message handlers run so far: position and locals
  netLast        \* what the last step's validateAndAddBlock did: <<>> when it made no such call

smVars == <<heap, stateCache, db, currentBlock, blockCache, blockStore, blk, last, ops, pre>>
concVars == <<calls, start, requests>>
poolVars == <<transactions, now, transactions2, poolLast>>
admitVars == <<adds, balance>>
consVars == <<validators, requiredValidations, pendingBlocks, validations, validationsOrder,
              finalized, consLast>>
headVars == <<headValidators, headPending, headCurrent, chainHead, headLast>>
valVars == <<vTx, vBlock, vPrev, vNow, vOut>>
hashVars == <<mItems, mFirst, mSecond>>
proposalVars == <<poolEntries, mempool, handed>>
storageVars == <<storageChain, storageCalls>>
coreVars == <<coreChain, coreArrays, corePending, coreCalls>>
netVars == <<netConfig, netBlockchain, netPending, netCalls, netLast>>
nodeVars == <<proposalVars, storageVars, coreVars, netVars>>
engineVars == <<admitVars, consVars, headVars, valVars, hashVars, nodeVars>>
vars == <<smVars, concVars, poolVars, engineVars>>

\* No addTransaction call is in flight.
InitAdmit ==
  /\ adds = <<>>
  /\ balance = <<>>

\* The engine of the design's scenario: validators A, B and C.
InitHash ==
  /\ mItems = <<>>
  /\ mFirst = <<>>
  /\ mSecond = <<>>

\* No retrieval has been made; the optimizer is as constructed.
InitProposal ==
  /\ poolEntries = <<>>
  /\ mempool = <<>>
  /\ handed = <<>>

\* BlockchainStorage as constructed: chain = [], no call made.
InitStorage ==
  /\ storageChain = <<>>
  /\ storageCalls = <<>>

\* BlockchainCore as constructed: the genesis block with its own empty
\* transaction array, and an empty pending array.
InitCore ==
  /\ coreArrays = <<<<>>, <<>>>>
  /\ coreChain = <<[timestamp |-> 0, transactions |-> 1, previousHash |-> <<"0">>,
                    hash |-> <<"0">>, nonce |-> 0]>>
  /\ corePending = 2
  /\ coreCalls = <<>>

\* A NetworkNode as constructed with the usual configuration.
InitNet ==
  /\ netConfig = [difficulty |-> 1, maxTransactionsPerBlock |-> 1]
  /\ netBlockchain = <<>>
  /\ netPending = <<>>
  /\ netCalls = <<>>
  /\ netLast = <<>>

InitNode == InitProposal /\ InitStorage /\ InitCore /\ InitNet

InitVal ==
  /\ vTx = <<>>
  /\ vBlock = <<>>
  /\ vPrev = <<>>
  /\ vNow = 0
  /\ vOut = <<>>

HeadGenesis == <<"h0">>

InitHead ==
  /\ headValidators = {"A", "B", "C"}
  /\ headPending = <<>>
  /\ headCurrent = <<>>
  /\ chainHead = HeadGenesis
  /\ headLast = [op |-> "init", arg |-> <<>>, ret |-> None, err |-> None, events |-> <<>>]

InitConsensus ==
  /\ validators = {"A", "B", "C"}
  /\ requiredValidations = Quorum
  /\ pendingBlocks = <<>>
  /\ validations = <<>>
  /\ validationsOrder = <<>>
  /\ finalized = {}
  /\ consLast = [op |-> "init", arg |-> <<>>, key |-> None, ok |-> TRUE, ret |-> None,
                 err |-> None]

\* Both pools are constructed empty.
InitPool ==
  /\ transactions = <<>>
  /\ now = 0
  /\ transactions2 = <<>>
  /\ poolLast = [op |-> "init", ret |-> "none", err |-> "none", events |-> {}]

\* ------------------------------------------------------------ the machine
\* The StateManager's state together with the store, as one record that the
\* methods transform.  calls counts the store calls of the running operation,
\* failAt is the store call that fails (0: none), err the error thrown so far
\* and ret the value the last call returned.
Put(f, k, v) == [x \in DOMAIN f \cup {k} |-> IF x = k THEN v ELSE f[x]]
Del(f, k) == [x \in DOMAIN f \ {k} |-> f[x]]

Machine ==
  [heap |-> heap, cache |-> stateCache, db |-> db, currentBlock |-> currentBlock,
   blockCache |-> blockCache, blockStore |-> blockStore, blk |-> blk,
   calls |-> 0, failAt |-> 0, err |-> None, ret |-> <<>>]

WithFault(m, f) == [m EXCEPT !.failAt = f]

Failed(m) == m.err # None

\* One call of the persistent store's method: it fails when it is the failAt-th
\* call of the running operation.
StoreCall(m, method) ==
  LET n == m.calls + 1
  IN  [m EXCEPT !.calls = n, !.err = IF n = m.failAt THEN method ELSE m.err]

StoreErrors == {"db.getAccount", "db.updateAccount", "db.saveBlock", "db.getBlock"}

\* LRUCache.get / LRUCache.set below capacity.
CacheHas(m, a) == a \in DOMAIN m.cache

CacheSet(m, a, o) ==
  IF ~CacheHas(m, a) /\ Cardinality(DOMAIN m.cache) >= CacheSize
  THEN LET victim == CHOOSE x \in DOMAIN m.cache : TRUE
       IN  [m EXCEPT !.cache = Put(Del(m.cache, victim), a, o)]
  ELSE [m EXCEPT !.cache = Put(m.cache, a, o)]

createEmptyAccount == [balance |-> 0, nonce |-> 0]

\* getAccount(address): fresh names the object a store read or
\* createEmptyAccount creates.
\* Lines 38-44: the store read and what follows it.
getAccountMiss(m, a, fresh) ==
  LET m1 == StoreCall(m, "db.getAccount")
  IN  IF Failed(m1) THEN m1
      ELSE IF a \notin DOMAIN m1.db
      THEN [m1 EXCEPT !.heap = Put(m1.heap, fresh, createEmptyAccount), !.ret = fresh]
      ELSE [CacheSet([m1 EXCEPT !.heap = Put(m1.heap, fresh, m1.db[a])], a, fresh)
              EXCEPT !.ret = fresh]

getAccount(m, a, fresh) ==
  IF CacheHas(m, a)
  THEN [m EXCEPT !.ret = m.cache[a]]
  ELSE getAccountMiss(m, a, fresh)

validateAccount(account) == ~(account.balance < 0 \/ account.nonce < 0)

\* updateAccount(address, account): account is the object o.
\* Lines 53-54: the store write and the cache refresh.  v is the account as it
\* was handed to db.updateAccount, o the object the cache is given.
updateAccountWrite(m, a, o, v) ==
  LET m1 == StoreCall(m, "db.updateAccount")
  IN  IF Failed(m1) THEN m1
      ELSE CacheSet([m1 EXCEPT !.db = Put(m1.db, a, v)], a, o)

updateAccount(m, a, o) ==
  IF ~validateAccount(m.heap[o])
  THEN [m EXCEPT !.err = "Invalid account state"]
  ELSE updateAccountWrite(m, a, o, m.heap[o])

\* Debit with the fee credited to the recipient instead of burned.
Debit_feeToRecipient(h, s, r, tx) ==
  LET h1 == [h EXCEPT ![s].balance = @ - (tx.value + tx.fee), ![s].nonce = @ + 1]
  IN  [h1 EXCEPT ![r].balance = @ + tx.value + tx.fee]

\* The in-place updates of lines 69-71; sender and recipient may be one object.
Debit(h, s, r, tx) ==
  LET h1 == [h EXCEPT ![s].balance = @ - (tx.value + tx.fee), ![s].nonce = @ + 1]
  IN  [h1 EXCEPT ![r].balance = @ + tx.value]

\* applyTransaction with the balance check forgetting the fee.
applyTransaction_checkWithoutFee(m, tx, p) ==
  LET m1 == getAccount(m, tx.from, LocalOid(p, "s"))
      s  == m1.ret
      m2 == getAccount(m1, tx.to, LocalOid(p, "r"))
      r  == m2.ret
  IN  IF Failed(m1) THEN m1
      ELSE IF Failed(m2) THEN m2
      ELSE IF m2.heap[s].balance < tx.value
      THEN [m2 EXCEPT !.err = "Insufficient balance"]
      ELSE LET m3 == [m2 EXCEPT !.heap = Debit(m2.heap, s, r, tx)]
               m4 == updateAccount(m3, tx.from, s)
           IN  IF Failed(m4) THEN m4 ELSE updateAccount(m4, tx.to, r)

applyTransaction(m, tx, p) ==
  LET m1 == getAccount(m, tx.from, LocalOid(p, "s"))
      s  == m1.ret
      m2 == getAccount(m1, tx.to, LocalOid(p, "r"))
      r  == m2.ret
  IN  IF Failed(m1) THEN m1
      ELSE IF Failed(m2) THEN m2
      ELSE IF m2.heap[s].balance < tx.value + tx.fee
      THEN [m2 EXCEPT !.err = "Insufficient balance"]
      ELSE LET m3 == [m2 EXCEPT !.heap = Debit(m2.heap, s, r, tx)]
               m4 == updateAccount(m3, tx.from, s)
           IN  IF Failed(m4) THEN m4 ELSE updateAccount(m4, tx.to, r)

\* revertTransaction(tx): lines 134-136 update the objects in place, then both
\* are written; an error of updateAccount propagates.
Credit(h, s, r, tx) ==
  LET h1 == [h EXCEPT ![s].balance = @ + (tx.value + tx.fee), ![s].nonce = @ - 1]
  IN  [h1 EXCEPT ![r].balance = @ - tx.value]

revertTransaction(m, tx, p) ==
  LET m1 == getAccount(m, tx.from, LocalOid(p, "s"))
      s  == m1.ret
      m2 == getAccount(m1, tx.to, LocalOid(p, "r"))
      r  == m2.ret
  IN  IF Failed(m1) THEN m1
      ELSE IF Failed(m2) THEN m2
      ELSE LET m3 == [m2 EXCEPT !.heap = Credit(m2.heap, s, r, tx)]
               m4 == updateAccount(m3, tx.from, s)
           IN  IF Failed(m4) THEN m4 ELSE updateAccount(m4, tx.to, r)

\* When a call has returned, its local references are gone: the objects left
\* are the cached ones, named by their address.
Collect(m) ==
  [m EXCEPT
     !.heap = [o \in {CachedOid(a) : a \in DOMAIN m.cache} |-> m.heap[m.cache[o[2]]]],
     !.cache = [a \in DOMAIN m.cache |-> CachedOid(a)]]

\* for (const tx of txs) await step(tx): the loop stops at the first error.
RECURSIVE ForEach(_, _, _)
ForEach(m, txs, revert) ==
  IF Failed(m) \/ txs = <<>> THEN m
  ELSE LET m1 == IF revert THEN revertTransaction(m, Head(txs), SeqProc)
                 ELSE applyTransaction(m, Head(txs), SeqProc)
       IN  ForEach(Collect(m1), Tail(txs), revert)

\* commitBlock moving the pointer and caching the block before the loop.
commitBlock_pointerFirst(m) ==
  LET m0 == [m EXCEPT !.currentBlock = m.blk.hash,
                      !.blockCache = @ \cup {m.blk.hash}]
      m1 == ForEach(m0, m.blk.transactions, FALSE)
      m3 == StoreCall(m1, "db.saveBlock")
  IN  IF Failed(m1) THEN m1
      ELSE IF Failed(m3) THEN m3
      ELSE [m3 EXCEPT !.blockStore = Put(@, m.blk.hash, m.blk)]

\* commitBlock(block): block is the caller's object blk; the block cache keeps
\* the object, the store a copy of it.
commitBlock(m) ==
  LET m1 == ForEach(m, m.blk.transactions, FALSE)
      m2 == [m1 EXCEPT !.currentBlock = m.blk.hash,
                       !.blockCache = @ \cup {m.blk.hash}]
      m3 == StoreCall(m2, "db.saveBlock")
  IN  IF Failed(m1) THEN m1
      ELSE IF Failed(m3) THEN m3
      ELSE [m3 EXCEPT !.blockStore = Put(@, m.blk.hash, m.blk)]

\* getBlock(hash): returns the cached object (the caller's blk), a copy of the
\* stored block, or nothing when the store has none.
getBlock(m, h) ==
  IF h \in m.blockCache
  THEN [m EXCEPT !.ret = [kind |-> "cached", block |-> m.blk]]
  ELSE LET m1 == StoreCall(m, "db.getBlock")
       IN  IF Failed(m1) THEN m1
           ELSE IF h \in DOMAIN m1.blockStore
           THEN [m1 EXCEPT !.ret = [kind |-> "copy", block |-> m1.blockStore[h]]]
           ELSE [m1 EXCEPT !.ret = [kind |-> "null"]]

Reverse(q) == [i \in 1..Len(q) |-> q[Len(q) + 1 - i]]

\* revertBlock(blockHash): Array.prototype.reverse reverses the block's
\* transactions in place, so the cached object stays reversed.
revertBlock(m, h) ==
  LET m1 == getBlock(m, h)
      block == m1.ret.block
      m2 == IF m1.ret.kind = "cached" THEN [m1 EXCEPT !.blk.transactions = Reverse(@)] ELSE m1
      m3 == ForEach(m2, Reverse(block.transactions), TRUE)
      m4 == getBlock(m3, block.parentHash)
  IN  IF Failed(m1) THEN m1
      ELSE IF m1.ret.kind = "null" THEN [m1 EXCEPT !.err = "TypeError"]
      ELSE IF Failed(m3) THEN m3
      ELSE IF Failed(m4) THEN m4
      ELSE [m4 EXCEPT !.currentBlock = IF m4.ret.kind = "null" THEN None ELSE m4.ret.block.hash]

\* The store's record of a, and what getAccount(a) returns, store failures
\* aside; an address without a record reads as the empty account.
StoredIn(m, a) == IF a \in DOMAIN m.db THEN m.db[a] ELSE createEmptyAccount

VisibleIn(m, a) == IF a \in DOMAIN m.cache THEN m.heap[m.cache[a]] ELSE StoredIn(m, a)

ViewOf(m) == [a \in Addr |-> [stored |-> StoredIn(m, a), visible |-> VisibleIn(m, a)]]

Stored(a) == StoredIn(Machine, a)
Visible(a) == VisibleIn(Machine, a)
AccountsView == ViewOf(Machine)

\* The model's caps on the unbounded counters.
InCaps(account) ==
  /\ account.balance \in -MaxValue..MaxBalance
  /\ account.nonce \in -1..MaxNonce

WithinCaps(m) ==
  /\ \A a \in DOMAIN m.db : InCaps(m.db[a])
  /\ \A o \in DOMAIN m.heap : InCaps(m.heap[o])

Install(m, op, arg) ==
  /\ WithinCaps(m)
  /\ heap' = m.heap
  /\ stateCache' = m.cache
  /\ db' = m.db
  /\ currentBlock' = m.currentBlock
  /\ blockCache' = m.blockCache
  /\ blockStore' = m.blockStore
  /\ blk' = m.blk
  /\ last' = [op |-> op, arg |-> arg, err |-> m.err]
  /\ UNCHANGED <<concVars, poolVars, engineVars>>

\* ---------------------------------------------------------------- actions
MaxApplyStoreCalls == 4

GetAccountOp ==
  \E a \in Addr, f \in 0..1 :
    /\ UNCHANGED <<ops, pre>>
    /\ Install(Collect(getAccount(WithFault(Machine, f), a, LocalOid(SeqProc, "s"))), "getAccount", None)

ApplyTransactionOp ==
  \E tx \in Tx, f \in 0..MaxApplyStoreCalls :
    /\ UNCHANGED <<ops, pre>>
    /\ Install(Collect(applyTransaction(WithFault(Machine, f), tx, SeqProc)), "applyTransaction", tx)

UpdateAccountOp ==
  \E a \in Addr, acct \in [balance : -1..1, nonce : -1..1], f \in 0..1 :
    LET o == LocalOid(SeqProc, "s")
        m == [WithFault(Machine, f) EXCEPT !.heap = Put(heap, o, acct)]
    IN  /\ UNCHANGED <<ops, pre>>
        /\ Install(Collect(updateAccount(m, a, o)), "updateAccount", None)

\* A caller's  account = await getAccount(a); account.balance += 1  with no
\* updateAccount: the write goes to the object getAccount returned.
MutateReturnedOp ==
  \E a \in Addr, f \in 0..1 :
    LET m1 == getAccount(WithFault(Machine, f), a, LocalOid(SeqProc, "s"))
        m2 == IF Failed(m1) THEN m1
              ELSE [m1 EXCEPT !.heap = [@ EXCEPT ![m1.ret].balance = @ + 1]]
    IN  /\ UNCHANGED <<ops, pre>>
        /\ Install(Collect(m2), "mutate", a)

MaxBlockStoreCalls == 4 * MaxBlockTxs + 2

CommitBlockOp ==
  \E f \in 0..MaxBlockStoreCalls :
    /\ ops < MaxOps
    /\ ops' = ops + 1
    /\ pre' = AccountsView
    /\ Install(commitBlock(WithFault(Machine, f)), "commitBlock", blk.hash)

RevertBlockOp ==
  \E h \in Hashes, f \in 0..MaxBlockStoreCalls :
    /\ ops < MaxOps
    /\ ops' = ops + 1
    /\ UNCHANGED pre
    /\ Install(revertBlock(WithFault(Machine, f), h), "revertBlock", h)

InitAccounts == [balance : 0..MaxBalance, nonce : {0}]

RECURSIVE SeqsUpTo(_, _)
SeqsUpTo(S, n) ==
  IF n = 0 THEN {<<>>}
  ELSE LET shorter == SeqsUpTo(S, n - 1)
       IN  shorter \cup {Append(q, x) : q \in {r \in shorter : Len(r) = n - 1}, x \in S}

BlockTx == [from : Addr, to : Addr, value : Values, fee : 0..MaxBlockFee]
Blocks == [hash : {"h1"}, parentHash : {Genesis}, transactions : SeqsUpTo(BlockTx, MaxBlockTxs)]
InitBlockAccounts == [balance : 0..MaxBlockBalance, nonce : {0}]

Init ==
  /\ heap = <<>>
  /\ stateCache = <<>>
  /\ \E S \in SUBSET Addr : db \in [S -> InitAccounts]
  /\ currentBlock = Genesis
  /\ blockCache = {}
  /\ blockStore = (Genesis :> GenesisBlock)
  /\ blk = [hash |-> "h1", parentHash |-> Genesis, transactions |-> <<>>]
  /\ last = [op |-> "init", arg |-> None, err |-> None]
  /\ ops = 0
  /\ pre = <<>>
  /\ calls = <<>>
  /\ start = <<>>
  /\ requests = <<>>
  /\ InitPool
  /\ InitAdmit
  /\ InitConsensus
  /\ InitHead
  /\ InitVal
  /\ InitHash
  /\ InitNode

InitBlock ==
  /\ heap = <<>>
  /\ stateCache = <<>>
  /\ \E S \in SUBSET Addr : db \in [S -> InitBlockAccounts]
  /\ currentBlock = Genesis
  /\ blockCache = {}
  /\ blockStore = (Genesis :> GenesisBlock)
  /\ blk \in Blocks
  /\ last = [op |-> "init", arg |-> None, err |-> None]
  /\ ops = 0
  /\ pre = <<>>
  /\ calls = <<>>
  /\ start = <<>>
  /\ requests = <<>>
  /\ InitPool
  /\ InitAdmit
  /\ InitConsensus
  /\ InitHead
  /\ InitVal
  /\ InitHash
  /\ InitNode

Next ==
  \/ GetAccountOp
  \/ ApplyTransactionOp
  \/ UpdateAccountOp

Spec == Init /\ [][Next]_vars

NextAlias ==
  \/ GetAccountOp
  \/ UpdateAccountOp
  \/ MutateReturnedOp

SpecAlias == Init /\ [][NextAlias]_vars

NextBlock ==
  \/ CommitBlockOp
  \/ RevertBlockOp

SpecBlock == InitBlock /\ [][NextBlock]_vars

\* ------------------------------------- concurrent applyTransaction calls
\* Two applyTransaction calls started together on one StateManager.  pc is
\* the await a call is suspended at.  A call suspended on a resolved promise
\* (a cache hit, a returned value) resumes before any store request completes;
\* the store serves its requests in the order they were made.
CallOf(p) == calls[p]

Resumable(p) == calls[p].pc \in {"start", "gotSender", "gotRecipient"}

StoreCompletes(p) ==
  /\ \A q \in Procs : ~Resumable(q)
  /\ requests # <<>> /\ Head(requests) = p

SetCall(p, c) == calls' = [calls EXCEPT ![p] = c]

InstallConc(m) ==
  /\ heap' = m.heap
  /\ stateCache' = m.cache
  /\ db' = m.db
  /\ UNCHANGED <<currentBlock, blockCache, blockStore, blk, last, ops, pre, start, poolVars,
               engineVars>>

\* Line 62 up to the await: the cache lookup for the sender.
LookupSender(p) ==
  LET c == CallOf(p) IN
  /\ c.pc = "start"
  /\ IF CacheHas(Machine, c.tx.from)
     THEN SetCall(p, [c EXCEPT !.pc = "gotSender", !.s = stateCache[c.tx.from]])
          /\ UNCHANGED requests
     ELSE SetCall(p, [c EXCEPT !.pc = "readSender"])
          /\ requests' = Append(requests, p)
  /\ UNCHANGED <<smVars, start, poolVars, engineVars>>

\* db.getAccount(tx.from) completes: lines 38-44.
ReadSender(p) ==
  LET c == CallOf(p)
      m == getAccountMiss(Machine, c.tx.from, LocalOid(p, "s"))
  IN  /\ c.pc = "readSender"
      /\ StoreCompletes(p)
      /\ requests' = Tail(requests)
      /\ SetCall(p, [c EXCEPT !.pc = "gotSender", !.s = m.ret])
      /\ InstallConc(m)

\* Line 63 up to the await: the cache lookup for the recipient.
LookupRecipient(p) ==
  LET c == CallOf(p) IN
  /\ c.pc = "gotSender"
  /\ IF CacheHas(Machine, c.tx.to)
     THEN SetCall(p, [c EXCEPT !.pc = "gotRecipient", !.r = stateCache[c.tx.to]])
          /\ UNCHANGED requests
     ELSE SetCall(p, [c EXCEPT !.pc = "readRecipient"])
          /\ requests' = Append(requests, p)
  /\ UNCHANGED <<smVars, start, poolVars, engineVars>>

\* db.getAccount(tx.to) completes.
ReadRecipient(p) ==
  LET c == CallOf(p)
      m == getAccountMiss(Machine, c.tx.to, LocalOid(p, "r"))
  IN  /\ c.pc = "readRecipient"
      /\ StoreCompletes(p)
      /\ requests' = Tail(requests)
      /\ SetCall(p, [c EXCEPT !.pc = "gotRecipient", !.r = m.ret])
      /\ InstallConc(m)

\* Lines 65-73 up to the store write: the balance check, the in-place
\* updates, the validation of the sender and the request to write it.
CheckAndDebit(p) ==
  LET c == CallOf(p)
      h == Debit(heap, c.s, c.r, c.tx)
  IN  /\ c.pc = "gotRecipient"
      /\ IF heap[c.s].balance < c.tx.value + c.tx.fee
         THEN /\ SetCall(p, [c EXCEPT !.pc = "done", !.err = "Insufficient balance"])
              /\ UNCHANGED <<heap, requests>>
         ELSE /\ heap' = h
              /\ IF validateAccount(h[c.s])
                 THEN /\ SetCall(p, [c EXCEPT !.pc = "writeSender", !.w = h[c.s]])
                      /\ requests' = Append(requests, p)
                 ELSE /\ SetCall(p, [c EXCEPT !.pc = "done", !.err = "Invalid account state"])
                      /\ UNCHANGED requests
      /\ UNCHANGED <<stateCache, db, currentBlock, blockCache, blockStore, blk, last, ops, pre,
                     start, poolVars, engineVars>>

\* db.updateAccount(tx.from, sender) completes, the cache is refreshed (lines
\* 53-54), and updateAccount(tx.to, recipient) validates the recipient and
\* requests its write.
WriteSender(p) ==
  LET c == CallOf(p)
      m == updateAccountWrite(Machine, c.tx.from, c.s, c.w)
  IN  /\ c.pc = "writeSender"
      /\ StoreCompletes(p)
      /\ InstallConc(m)
      /\ IF validateAccount(heap[c.r])
         THEN /\ SetCall(p, [c EXCEPT !.pc = "writeRecipient", !.w = heap[c.r]])
              /\ requests' = Append(Tail(requests), p)
         ELSE /\ SetCall(p, [c EXCEPT !.pc = "done", !.err = "Invalid account state"])
              /\ requests' = Tail(requests)

\* db.updateAccount(tx.to, recipient) completes and the call returns.
WriteRecipient(p) ==
  LET c == CallOf(p)
      m == updateAccountWrite(Machine, c.tx.to, c.r, c.w)
  IN  /\ c.pc = "writeRecipient"
      /\ StoreCompletes(p)
      /\ requests' = Tail(requests)
      /\ InstallConc(m)
      /\ SetCall(p, [c EXCEPT !.pc = "done"])

\* The accounts are stored, and cached or not, when the calls start.
InitConc ==
  /\ db \in [Addr -> InitAccounts]
  /\ \E C \in SUBSET Addr :
       /\ stateCache = [a \in C |-> CachedOid(a)]
       /\ heap = [o \in {CachedOid(a) : a \in C} |-> db[o[2]]]
  /\ currentBlock = Genesis
  /\ blockCache = {}
  /\ blockStore = (Genesis :> GenesisBlock)
  /\ blk = [hash |-> "h1", parentHash |-> Genesis, transactions |-> <<>>]
  /\ last = [op |-> "init", arg |-> None, err |-> None]
  /\ ops = 0
  /\ pre = <<>>
  /\ calls \in [Procs -> [pc : {"start"}, tx : Tx, s : {<<>>}, r : {<<>>}, w : {<<>>}, err : {None}]]
  /\ start = Machine
  /\ requests = <<>>
  /\ InitPool
  /\ InitAdmit
  /\ InitConsensus
  /\ InitHead
  /\ InitVal
  /\ InitHash
  /\ InitNode

NextConc ==
  \E p \in Procs :
    \/ LookupSender(p)
    \/ ReadSender(p)
    \/ LookupRecipient(p)
    \/ ReadRecipient(p)
    \/ CheckAndDebit(p)
    \/ WriteSender(p)
    \/ WriteRecipient(p)

SpecConc == InitConc /\ [][NextConc]_vars

\* The accounts after the two calls have run one after the other, first first.
SerialView(first, second) ==
  LET m1 == Collect(applyTransaction(start, calls[first].tx, SeqProc))
      m2 == Collect(applyTransaction([m1 EXCEPT !.err = None], calls[second].tx, SeqProc))
  IN  ViewOf(m2)

AllDone == \A p \in Procs : calls[p].pc = "done"

\* ---------------------------------------------------------- TransactionPool
\* The transactions submitted to the event-emitting pool: well-formed transfers
\* and one transaction for each defect validateTransaction looks for.
WellFormed ==
  [fromAddress : Addr, toAddress : Addr, amount : 1..MaxAmount, timestamp : {0},
   signature : {"sig"}, bytes : {200}]

Unsigned ==
  [fromAddress |-> "a1", toAddress |-> "a2", amount |-> 1, timestamp |-> 0,
   signature |-> "", bytes |-> 200]

ZeroAmount ==
  [fromAddress |-> "a1", toAddress |-> "a2", amount |-> 0, timestamp |-> 0,
   signature |-> "sig", bytes |-> 200]

Oversize ==
  [fromAddress |-> "a2", toAddress |-> "a1", amount |-> 1, timestamp |-> 0,
   signature |-> "sig", bytes |-> MAX_SIZE_BYTES + 1]

PoolTx == WellFormed \cup {Unsigned, ZeroAmount, Oversize}

\* What the Blockchain collaborator answers during one validation.
ChainAnswers == [verified : BOOLEAN, balance : 0..MaxAmount]

\* The hash covers four fields only; SHA256 is taken to be collision free.
getTransactionHash(tx) == <<tx.fromAddress, tx.toAddress, tx.amount, tx.timestamp>>

getTransactionSize(tx) == tx.bytes

getPoolSize(txs) == Cardinality(DOMAIN txs)

\* The error validateTransaction throws, None when it returns.
validateTransaction(tx, chain) ==
  IF tx.signature = "" \/ tx.fromAddress = "" \/ tx.toAddress = "" \/ tx.amount <= 0
  THEN "Invalid transaction format"
  ELSE IF ~chain.verified THEN "Transaction signature verification failed"
  ELSE IF chain.balance < tx.amount THEN "Insufficient balance"
  ELSE IF getTransactionSize(tx) > MAX_SIZE_BYTES THEN "Transaction size exceeds limit"
  ELSE None

removeOldestTransactions(txs, t) ==
  [h \in {k \in DOMAIN txs : ~(t - txs[k].timestamp > MAX_AGE_MS)} |-> txs[h]]

\* A variant that sweeps the old entries before it validates.
addTransaction_sweepFirst(txs, tx, chain, t, listenerThrows) ==
  LET txHash == getTransactionHash(tx)
      swept  == IF getPoolSize(txs) >= MaxSize THEN removeOldestTransactions(txs, t) ELSE txs
      verr   == validateTransaction(tx, chain)
  IN  IF txHash \in DOMAIN txs
      THEN [transactions |-> txs, ret |-> FALSE, err |-> "duplicate", events |-> {}]
      ELSE IF verr # None
      THEN [transactions |-> swept, ret |-> FALSE, err |-> verr, events |-> {"error"}]
      ELSE [transactions |-> Put(swept, txHash, [tx EXCEPT !.timestamp = t]),
            ret |-> TRUE, err |-> None, events |-> {"transaction"}]

\* Lines 36-49 of addTransaction: the sweep of a full pool, the insertion and
\* the event.  A 'transaction' listener that throws lands in the catch block
\* after the entry has been stored.
admit(txs, tx, t, listenerThrows) ==
  LET swept  == IF getPoolSize(txs) >= MaxSize THEN removeOldestTransactions(txs, t) ELSE txs
      stored == Put(swept, getTransactionHash(tx), [tx EXCEPT !.timestamp = t])
  IN  IF listenerThrows
      THEN [transactions |-> stored, ret |-> FALSE, err |-> "listener",
            events |-> {"transaction", "error"}]
      ELSE [transactions |-> stored, ret |-> TRUE, err |-> None, events |-> {"transaction"}]

\* addTransaction of the event-emitting pool.
addTransaction(txs, tx, chain, t, listenerThrows) ==
  LET txHash == getTransactionHash(tx)
      verr   == validateTransaction(tx, chain)
  IN  IF txHash \in DOMAIN txs
      THEN [transactions |-> txs, ret |-> FALSE, err |-> "duplicate", events |-> {}]
      ELSE IF verr # None
      THEN [transactions |-> txs, ret |-> FALSE, err |-> verr, events |-> {"error"}]
      ELSE admit(txs, tx, t, listenerThrows)

removeTransaction(txs, txHash) ==
  [transactions |-> Del(txs, txHash), ret |-> txHash \in DOMAIN txs, err |-> None, events |-> {}]

clear(txs) == [transactions |-> <<>>, ret |-> None, err |-> None, events |-> {}]

\* cleanPool: the confirmed transactions leave the pool, then the old ones.
cleanPool(txs, confirmedTxs, t) ==
  LET hashes == {getTransactionHash(tx) : tx \in confirmedTxs}
      rest   == [h \in DOMAIN txs \ hashes |-> txs[h]]
  IN  [transactions |-> removeOldestTransactions(rest, t), ret |-> None, err |-> None,
       events |-> {}]

InstallPool(op, r) ==
  /\ transactions' = r.transactions
  /\ poolLast' = [op |-> op, ret |-> r.ret, err |-> r.err, events |-> r.events]
  /\ UNCHANGED <<now, transactions2, smVars, concVars, engineVars>>

AddTransactionOp ==
  \E tx \in PoolTx, chain \in ChainAnswers, listenerThrows \in BOOLEAN :
    InstallPool("addTransaction", addTransaction(transactions, tx, chain, now, listenerThrows))

RemoveTransactionOp ==
  \E tx \in PoolTx :
    InstallPool("removeTransaction", removeTransaction(transactions, getTransactionHash(tx)))

ClearOp == InstallPool("clear", clear(transactions))

CleanPoolOp ==
  \E confirmedTxs \in {{}} \cup {{tx} : tx \in WellFormed} :
    InstallPool("cleanPool", cleanPool(transactions, confirmedTxs, now))

\* The instants at which calls are made: up to MaxTicks max ages after the
\* construction, and a millisecond after each.
Times == {k * MAX_AGE_MS + j : k \in 0..MaxTicks, j \in 0..1}

\* Time passes between calls.
Tick ==
  /\ \E t \in Times :
       /\ t > now
       /\ now' = t
  /\ UNCHANGED <<transactions, transactions2, poolLast, smVars, concVars, engineVars>>

\* The second pool.  Its transactions answer isValid() and serialize().
Tx2 == [valid : BOOLEAN, from : Addr, amount : 1..MaxAmount]

hash2(tx) == <<tx.from, tx.amount>>

getSenderBalance(address) == [err |-> "Not implemented"]

getPendingAmount(txs, address) ==
  LET RECURSIVE Total(_)
      Total(S) == IF S = {} THEN 0
                  ELSE LET h == CHOOSE k \in S : TRUE
                       IN  (IF txs[h].from = address THEN txs[h].amount ELSE 0) + Total(S \ {h})
  IN  Total(DOMAIN txs)

validateTransactionBalance(txs, tx) ==
  LET senderBalance == getSenderBalance(tx.from)
  IN  IF senderBalance.err # None
      THEN [err |-> "Transaction validation failed: " \o senderBalance.err]
      ELSE [err |-> None, ret |-> senderBalance.ret >= getPendingAmount(txs, tx.from) + tx.amount]

\* addTransaction of the second pool: every refusal is thrown.
addTransaction2(txs, tx) ==
  LET txHash == hash2(tx)
      enough == validateTransactionBalance(txs, tx)
      thrown(e) == [transactions |-> txs, ret |-> None, err |-> e, events |-> {}]
  IN  IF ~tx.valid THEN thrown("Invalid transaction signature")
      ELSE IF Cardinality(DOMAIN txs) >= maxPoolSize THEN thrown("Transaction pool is full")
      ELSE IF txHash \in DOMAIN txs THEN thrown("Transaction already exists in pool")
      ELSE IF enough.err # None THEN thrown(enough.err)
      ELSE IF ~enough.ret THEN thrown("Insufficient balance for transaction")
      ELSE [transactions |-> Put(txs, txHash, tx), ret |-> None, err |-> None, events |-> {}]

AddTransaction2Op ==
  \E tx \in Tx2 :
    LET r == addTransaction2(transactions2, tx)
    IN  /\ transactions2' = r.transactions
        /\ poolLast' = [op |-> "addTransaction2", ret |-> r.ret, err |-> r.err, events |-> r.events]
        /\ UNCHANGED <<transactions, now, smVars, concVars, engineVars>>

InitNoStateManager ==
  /\ heap = <<>>
  /\ stateCache = <<>>
  /\ db = <<>>
  /\ currentBlock = Genesis
  /\ blockCache = {}
  /\ blockStore = (Genesis :> GenesisBlock)
  /\ blk = [hash |-> "h1", parentHash |-> Genesis, transactions |-> <<>>]
  /\ last = [op |-> "init", arg |-> None, err |-> None]
  /\ ops = 0
  /\ pre = <<>>
  /\ calls = <<>>
  /\ start = <<>>
  /\ requests = <<>>

InitIdle ==
  /\ InitNoStateManager
  /\ InitPool
  /\ InitAdmit
  /\ InitConsensus
  /\ InitHead
  /\ InitVal
  /\ InitHash
  /\ InitNode

NextPool ==
  \/ AddTransactionOp
  \/ RemoveTransactionOp
  \/ ClearOp
  \/ CleanPoolOp
  \/ Tick
  \/ AddTransaction2Op

SpecPool == InitIdle /\ [][NextPool]_vars

\* ------------------------------------------- concurrent addTransaction calls
\* Two addTransaction calls on the event-emitting pool, each suspended at the
\* awaits of validateTransaction; either call resumes when the Blockchain
\* answers it.
AddOf(p) == adds[p]

ChainFor(tx, verified) == [verified |-> verified, balance |-> balance[tx.fromAddress]]

FinishAdd(p, r) ==
  /\ adds' = [adds EXCEPT ![p] = [@ EXCEPT !.pc = "done", !.ret = r.ret, !.err = r.err,
                                            !.events = r.events]]
  /\ transactions' = r.transactions

Refuse(txs, e) == [transactions |-> txs, ret |-> FALSE, err |-> e, events |-> {"error"}]

AdmitFrame ==
  UNCHANGED <<now, transactions2, poolLast, balance, smVars, concVars, consVars, headVars,
              valVars, hashVars, nodeVars>>

\* Lines 28-34 and 77-81: the duplicate test and the format test, up to the
\* await of blockchain.verifyTransaction.
BeginAdd(p) ==
  LET c == AddOf(p)
      verr == validateTransaction(c.tx, ChainFor(c.tx, TRUE))
  IN  /\ c.pc = "start"
      /\ IF getTransactionHash(c.tx) \in DOMAIN transactions
         THEN FinishAdd(p, [transactions |-> transactions, ret |-> FALSE, err |-> "duplicate",
                            events |-> {}])
         ELSE IF verr = "Invalid transaction format"
         THEN FinishAdd(p, Refuse(transactions, verr))
         ELSE /\ adds' = [adds EXCEPT ![p] = [@ EXCEPT !.pc = "verifying"]]
              /\ UNCHANGED transactions
      /\ AdmitFrame

\* Lines 81-86: blockchain.verifyTransaction answers, up to the await of
\* blockchain.getAddressBalance.
VerifyDone(p) ==
  LET c == AddOf(p) IN
  /\ c.pc = "verifying"
  /\ \E verified \in BOOLEAN :
       LET verr == validateTransaction(c.tx, ChainFor(c.tx, verified))
       IN  IF verr = "Transaction signature verification failed"
           THEN FinishAdd(p, Refuse(transactions, verr))
           ELSE /\ adds' = [adds EXCEPT ![p] = [@ EXCEPT !.pc = "balancing"]]
                /\ UNCHANGED transactions
  /\ AdmitFrame

\* Lines 86-94 and 36-49: blockchain.getAddressBalance answers; the balance
\* and size tests, then the sweep, the insertion and the event.
BalanceDone(p) ==
  LET c == AddOf(p)
      verr == validateTransaction(c.tx, ChainFor(c.tx, TRUE))
  IN  /\ c.pc = "balancing"
      /\ \E listenerThrows \in BOOLEAN :
           IF verr # None
           THEN FinishAdd(p, Refuse(transactions, verr))
           ELSE FinishAdd(p, admit(transactions, c.tx, now, listenerThrows))
      /\ AdmitFrame

InitAdmitCalls ==
  /\ heap = <<>>
  /\ stateCache = <<>>
  /\ db = <<>>
  /\ currentBlock = Genesis
  /\ blockCache = {}
  /\ blockStore = (Genesis :> GenesisBlock)
  /\ blk = [hash |-> "h1", parentHash |-> Genesis, transactions |-> <<>>]
  /\ last = [op |-> "init", arg |-> None, err |-> None]
  /\ ops = 0
  /\ pre = <<>>
  /\ calls = <<>>
  /\ start = <<>>
  /\ requests = <<>>
  /\ InitPool
  /\ InitConsensus
  /\ InitHead
  /\ InitVal
  /\ InitHash
  /\ InitNode
  /\ adds \in [Procs -> [pc : {"start"}, tx : PoolTx, ret : {None}, err : {None}, events : {{}}]]
  /\ balance \in [Addr -> 0..MaxAmount]

NextAdmit ==
  \E p \in Procs :
    \/ BeginAdd(p)
    \/ VerifyDone(p)
    \/ BalanceDone(p)

SpecAdmit == InitAdmitCalls /\ [][NextAdmit]_vars

AddsDone == \A p \in Procs : adds[p].pc = "done"

\* ---------------------------------------------------------- ConsensusEngine
\* The attestation-collecting engine of ConsensusEngine.ts.  validateBlock and
\* verifySignature of crypto-utils are outside the repository's sources: their
\* answer is an input of the call.
Keys == {"A", "B", "C", "X"}
Block == [prevHash : {Genesis}, timestamp : 0..MaxStamp, transactions : {<<>>}, height : {1},
          proposer : {"A", "X"}]

calculateBlockHash(block) ==
  <<block.prevHash, block.timestamp,
    [i \in DOMAIN block.transactions |-> block.transactions[i].id], block.height>>

BlockHashes == {calculateBlockHash(b) : b \in Block}

Engine == [pendingBlocks |-> pendingBlocks, validations |-> validations,
           order |-> validationsOrder]

proposeBlock(e, block, valid) ==
  LET blockHash == calculateBlockHash(block) IN
  IF blockHash \in DOMAIN e.pendingBlocks
  THEN [engine |-> e, ret |-> FALSE, err |-> "Block already proposed"]
  ELSE IF ~valid
  THEN [engine |-> e, ret |-> FALSE, err |-> "Invalid block proposed"]
  ELSE [engine |-> [pendingBlocks |-> Put(e.pendingBlocks, blockHash, block),
                    validations |-> Put(e.validations, blockHash, {}),
                    order |-> IF blockHash \in DOMAIN e.validations THEN e.order
                              ELSE Append(e.order, blockHash)],
        ret |-> TRUE, err |-> None]

validateBlock_anyKey(e, vals, required, blockHash, validatorKey, sigOk) ==
  IF blockHash \notin DOMAIN e.pendingBlocks
  THEN [engine |-> e, ret |-> FALSE, err |-> "Unknown block"]
  ELSE IF ~sigOk
  THEN [engine |-> e, ret |-> FALSE, err |-> "Invalid signature"]
  ELSE IF blockHash \notin DOMAIN e.validations
  THEN [engine |-> e, ret |-> FALSE, err |-> "Block validation set not found"]
  ELSE LET added == [e.validations EXCEPT ![blockHash] = @ \cup {validatorKey}]
       IN  [engine |-> [e EXCEPT !.validations = added],
            ret |-> Cardinality(added[blockHash]) >= required, err |-> None]

validateBlock_addFirst(e, vals, required, blockHash, validatorKey, sigOk) ==
  IF validatorKey \notin vals
  THEN [engine |-> e, ret |-> FALSE, err |-> "Unknown validator"]
  ELSE IF blockHash \notin DOMAIN e.pendingBlocks
  THEN [engine |-> e, ret |-> FALSE, err |-> "Unknown block"]
  ELSE IF blockHash \notin DOMAIN e.validations
  THEN [engine |-> e, ret |-> FALSE, err |-> "Block validation set not found"]
  ELSE LET added == [e.validations EXCEPT ![blockHash] = @ \cup {validatorKey}]
       IN  IF ~sigOk
           THEN [engine |-> [e EXCEPT !.validations = added], ret |-> FALSE,
                 err |-> "Invalid signature"]
           ELSE [engine |-> [e EXCEPT !.validations = added],
                 ret |-> Cardinality(added[blockHash]) >= required, err |-> None]

validateBlock_strict(e, vals, required, blockHash, validatorKey, sigOk) ==
  IF validatorKey \notin vals
  THEN [engine |-> e, ret |-> FALSE, err |-> "Unknown validator"]
  ELSE IF blockHash \notin DOMAIN e.pendingBlocks
  THEN [engine |-> e, ret |-> FALSE, err |-> "Unknown block"]
  ELSE IF ~sigOk
  THEN [engine |-> e, ret |-> FALSE, err |-> "Invalid signature"]
  ELSE IF blockHash \notin DOMAIN e.validations
  THEN [engine |-> e, ret |-> FALSE, err |-> "Block validation set not found"]
  ELSE LET added == [e.validations EXCEPT ![blockHash] = @ \cup {validatorKey}]
       IN  [engine |-> [e EXCEPT !.validations = added],
            ret |-> Cardinality(added[blockHash]) > required, err |-> None]

validateBlock(e, vals, required, blockHash, validatorKey, sigOk) ==
  IF validatorKey \notin vals
  THEN [engine |-> e, ret |-> FALSE, err |-> "Unknown validator"]
  ELSE IF blockHash \notin DOMAIN e.pendingBlocks
  THEN [engine |-> e, ret |-> FALSE, err |-> "Unknown block"]
  ELSE IF ~sigOk
  THEN [engine |-> e, ret |-> FALSE, err |-> "Invalid signature"]
  ELSE IF blockHash \notin DOMAIN e.validations
  THEN [engine |-> e, ret |-> FALSE, err |-> "Block validation set not found"]
  ELSE LET added == [e.validations EXCEPT ![blockHash] = @ \cup {validatorKey}]
       IN  [engine |-> [e EXCEPT !.validations = added],
            ret |-> Cardinality(added[blockHash]) >= required, err |-> None]

\* The loop of getFinalizedBlocks over the entries of the validations map, in
\* insertion order; deleting the current entry does not disturb the iteration.
RECURSIVE SweepStrict(_, _, _, _)
SweepStrict(e, rest, required, out) ==
  IF rest = <<>> THEN [engine |-> e, ret |-> out, err |-> None]
  ELSE LET hash == Head(rest) IN
       IF Cardinality(e.validations[hash]) > required /\ hash \in DOMAIN e.pendingBlocks
       THEN SweepStrict([pendingBlocks |-> Del(e.pendingBlocks, hash),
                         validations |-> Del(e.validations, hash),
                         order |-> SelectSeq(e.order, LAMBDA h : h # hash)],
                        Tail(rest), required, Append(out, e.pendingBlocks[hash]))
       ELSE SweepStrict(e, Tail(rest), required, out)

RECURSIVE Sweep(_, _, _, _)
Sweep(e, rest, required, out) ==
  IF rest = <<>> THEN [engine |-> e, ret |-> out, err |-> None]
  ELSE LET hash == Head(rest) IN
       IF Cardinality(e.validations[hash]) >= required /\ hash \in DOMAIN e.pendingBlocks
       THEN Sweep([pendingBlocks |-> Del(e.pendingBlocks, hash),
                   validations |-> Del(e.validations, hash),
                   order |-> SelectSeq(e.order, LAMBDA h : h # hash)],
                  Tail(rest), required, Append(out, e.pendingBlocks[hash]))
       ELSE Sweep(e, Tail(rest), required, out)

getFinalizedBlocks_strict(e, required) == SweepStrict(e, e.order, required, <<>>)

getFinalizedBlocks(e, required) == Sweep(e, e.order, required, <<>>)

clearPendingBlocks(e) ==
  [engine |-> [pendingBlocks |-> <<>>, validations |-> <<>>, order |-> <<>>],
   ret |-> None, err |-> None]

InstallEngine(r, op, arg, key, ok) ==
  /\ pendingBlocks' = r.engine.pendingBlocks
  /\ validations' = r.engine.validations
  /\ validationsOrder' = r.engine.order
  /\ consLast' = [op |-> op, arg |-> arg, key |-> key, ok |-> ok, ret |-> r.ret, err |-> r.err]
  /\ UNCHANGED <<validators, requiredValidations, admitVars, headVars, valVars, hashVars, nodeVars,
                 smVars, concVars, poolVars>>

ProposeBlockOp ==
  \E block \in Block, valid \in BOOLEAN :
    /\ InstallEngine(proposeBlock(Engine, block, valid), "proposeBlock", block, None, valid)
    /\ UNCHANGED finalized

ValidateBlockOp ==
  \E blockHash \in BlockHashes, validatorKey \in Keys, sigOk \in BOOLEAN :
    /\ InstallEngine(validateBlock(Engine, validators, requiredValidations, blockHash,
                                   validatorKey, sigOk),
                     "validateBlock", blockHash, validatorKey, sigOk)
    /\ UNCHANGED finalized

\* finalized collects every block getFinalizedBlocks has returned so far.
GetFinalizedBlocksOp ==
  LET r == getFinalizedBlocks(Engine, requiredValidations) IN
  /\ InstallEngine(r, "getFinalizedBlocks", <<>>, None, TRUE)
  /\ finalized' = finalized \cup {r.ret[i] : i \in DOMAIN r.ret}

ClearPendingBlocksOp ==
  /\ InstallEngine(clearPendingBlocks(Engine), "clearPendingBlocks", <<>>, None, TRUE)
  /\ UNCHANGED finalized

NextConsensus ==
  \/ ProposeBlockOp
  \/ ValidateBlockOp
  \/ GetFinalizedBlocksOp
  \/ ClearPendingBlocksOp

SpecConsensus == InitIdle /\ [][NextConsensus]_vars

\* ----------------------------------------------- chain-head ConsensusEngine
\* The event-emitting engine of StateManager.ts.  Whether a signature verifies
\* (crypto.verify, ECPair.verify) is a field of the transaction or block.
HeadTx == [hash : {"t"}, signatureValid : BOOLEAN]

calculateHeadHash(block) ==
  <<block.previousHash, block.timestamp, block.transactions, block.nonce>>

HeadChild ==
  calculateHeadHash([previousHash |-> HeadGenesis, timestamp |-> 0,
                     transactions |-> <<[hash |-> "t", signatureValid |-> TRUE]>>, nonce |-> 0])

BadHash == <<"bad">>

HeadBody == [previousHash : {HeadGenesis, HeadChild}, timestamp : 0..MaxStamp,
             transactions : {<<t>> : t \in HeadTx}, nonce : {0}]

HeadBlock ==
  {[hash |-> IF hashed THEN calculateHeadHash(b) ELSE BadHash, previousHash |-> b.previousHash, timestamp |-> b.timestamp,
    transactions |-> b.transactions, nonce |-> b.nonce, proposer |-> who, signed |-> sg] :
     b \in HeadBody, hashed \in BOOLEAN,
     who \in {"A", "X"}, sg \in BOOLEAN}

HeadEngine == [pendingBlocks |-> headPending, currentBlock |-> headCurrent,
               chainHead |-> chainHead]

validateHeadTransaction(tx) == tx.signatureValid

verifyBlockSignature(block) == block.signed

validateHeadBlock(e, block) ==
  IF calculateHeadHash(block) # block.hash THEN FALSE
  ELSE IF block.previousHash # e.chainHead THEN FALSE
  ELSE IF \E i \in DOMAIN block.transactions : ~validateHeadTransaction(block.transactions[i])
  THEN FALSE
  ELSE verifyBlockSignature(block)

proposeHeadBlock(e, vals, block) ==
  IF block.proposer \notin vals
  THEN [engine |-> e, ret |-> FALSE, err |-> "Invalid block proposer", events |-> <<>>]
  ELSE IF ~validateHeadBlock(e, block)
  THEN [engine |-> e, ret |-> FALSE, err |-> "Invalid block", events |-> <<>>]
  ELSE [engine |-> [e EXCEPT !.pendingBlocks = Put(@, block.hash, block)],
        ret |-> TRUE, err |-> None, events |-> <<"blockProposed">>]

\* finalizeBlock throws 'Block not found': err is the exception, ret stays None.
finalizeBlock(e, hash) ==
  IF hash \notin DOMAIN e.pendingBlocks
  THEN [engine |-> e, ret |-> None, err |-> "Block not found", events |-> <<>>]
  ELSE [engine |-> [pendingBlocks |-> Del(e.pendingBlocks, hash),
                    currentBlock |-> <<e.pendingBlocks[hash]>>,
                    chainHead |-> e.pendingBlocks[hash].hash],
        ret |-> None, err |-> None, events |-> <<"blockFinalized">>]

InstallHead(r, op, arg) ==
  /\ headPending' = r.engine.pendingBlocks
  /\ headCurrent' = r.engine.currentBlock
  /\ chainHead' = r.engine.chainHead
  /\ headLast' = [op |-> op, arg |-> arg, ret |-> r.ret, err |-> r.err, events |-> r.events]
  /\ UNCHANGED <<headValidators, admitVars, consVars, valVars, hashVars, nodeVars, smVars,
                 concVars, poolVars>>

ProposeHeadBlockOp ==
  \E block \in HeadBlock :
    InstallHead(proposeHeadBlock(HeadEngine, headValidators, block), "proposeBlock", block)

FinalizeBlockOp ==
  \E hash \in {b.hash : b \in HeadBlock} :
    InstallHead(finalizeBlock(HeadEngine, hash), "finalizeBlock", hash)

NextHead ==
  \/ ProposeHeadBlockOp
  \/ FinalizeBlockOp

SpecHead == InitIdle /\ [][NextHead]_vars

\* ------------------------------------------------------ TransactionValidator
\* createHash, elliptic and JSON.stringify are libraries: whether the signature
\* verifies and how many bytes the transaction serialises to are fields of the
\* transaction.  An empty string stands for a missing field.
TxStamps == {k * TX_FUTURE_MS + j : k \in 0..MaxTicks, j \in 0..1}

VTx == [id : {"", "t1"}, from : {"", "a1"}, to : {"", "a2"}, signature : {"", "bad", "good"},
        bytes : {maxTxSize, maxTxSize + 1}, timestamp : TxStamps,
        fee : {minFee - 1, minFee},
        amount : 0..MaxAmount, senderBalance : {0, MaxAmount, MaxAmount + minFee}]

VTxBlock == [timestamp : TxStamps,
             transactions : SeqsUpTo([id : {"t1", "t2"}], MaxBlockTxs)]

validateBasics(tx, t) ==
  IF tx.id = "" \/ tx.from = "" \/ tx.to = "" \/ tx.signature = ""
  THEN "Missing required transaction fields"
  ELSE IF tx.bytes > maxTxSize THEN "Transaction size exceeds maximum allowed"
  ELSE IF tx.timestamp > t + TX_FUTURE_MS THEN "Transaction timestamp too far in future"
  ELSE IF tx.fee < minFee THEN "Transaction fee below minimum required"
  ELSE None

\* The ValidationError thrown inside the try block is caught and wrapped.
validateSignature(tx) ==
  IF tx.signature # "good"
  THEN "Signature validation failed: Invalid transaction signature"
  ELSE None

validateAmount(tx) ==
  IF tx.amount <= 0 THEN "Transaction amount must be positive"
  ELSE IF tx.amount > tx.senderBalance THEN "Insufficient sender balance"
  ELSE IF tx.amount + tx.fee > tx.senderBalance
  THEN "Insufficient balance to cover amount + fee"
  ELSE None

Occurrences(txs, id) == Cardinality({i \in DOMAIN txs : txs[i].id = id})

validateInBlock(tx, block) ==
  IF tx.timestamp > block.timestamp THEN "Transaction timestamp after block timestamp"
  ELSE IF Occurrences(block.transactions, tx.id) > 1 THEN "Duplicate transaction in block"
  ELSE None

\* The first of the errors, in the order given, that is not None.
FirstError(errors) ==
  IF \A i \in DOMAIN errors : errors[i] = None THEN None
  ELSE errors[CHOOSE i \in DOMAIN errors :
                 errors[i] # None /\ \A j \in 1..(i - 1) : errors[j] = None]

\* validateTransaction returns true or throws a ValidationError: ok is the
\* return, error the message thrown.
tvValidateTransaction(tx, block, t) ==
  LET error == FirstError(<<validateBasics(tx, t), validateSignature(tx), validateAmount(tx),
                            IF block = <<>> THEN None ELSE validateInBlock(tx, block[1])>>)
  IN  [ok |-> error = None, error |-> error]

ValFrame ==
  UNCHANGED <<smVars, concVars, poolVars, admitVars, consVars, headVars, hashVars, nodeVars>>

ValidateTransactionCall ==
  /\ vOut = <<>>
  /\ vOut' = <<tvValidateTransaction(vTx, vBlock, vNow)>>
  /\ UNCHANGED <<vTx, vBlock, vPrev, vNow>>
  /\ ValFrame

InitTxValidator ==
  /\ InitNoStateManager
  /\ InitPool
  /\ InitAdmit
  /\ InitConsensus
  /\ InitHead
  /\ vTx \in VTx
  /\ vBlock \in {<<>>} \cup {<<b>> : b \in VTxBlock}
  /\ vPrev = <<>>
  /\ vNow \in 0..MaxTicks
  /\ vOut = <<>>
  /\ InitHash
  /\ InitNode

NextTxValidator == ValidateTransactionCall

SpecTxValidator == InitTxValidator /\ [][NextTxValidator]_vars

\* ----------------------------------------------------------- BlockValidator
\* typed stands for the five typeof tests of validateBlockStructure, bytes for
\* JSON.stringify(block).length.  The digest is the tuple of the hashed fields;
\* a digest is taken to start with the difficulty prefix when its nonce is 0.
BlockStamps == {k * BLOCK_FUTURE_MS + j : k \in 0..MaxTicks, j \in 0..1}

GoodTx == [id |-> "t1", from |-> "a1", to |-> "a2", signature |-> "good",
           senderPublicKey |-> "k1", bytes |-> maxTxSize, timestamp |-> 0, fee |-> minFee,
           amount |-> MaxAmount, senderBalance |-> MaxAmount + minFee]

BTx == {GoodTx, [GoodTx EXCEPT !.id = "t2"], [GoodTx EXCEPT !.amount = 0],
        [GoodTx EXCEPT !.fee = minFee - 1], [GoodTx EXCEPT !.signature = "bad"],
        [GoodTx EXCEPT !.signature = ""], [GoodTx EXCEPT !.senderPublicKey = ""]}

bvCalculateBlockHash(block) ==
  <<block.index, block.previousHash, block.timestamp, block.transactions, block.nonce>>

MeetsDifficulty(hash) == hash[5] = 0

BBody == [index : {1}, previousHash : {"hp", "hq"}, timestamp : BlockStamps,
          transactions : SeqsUpTo(BTx, MaxBlockTxs), nonce : 0..1]

BBlock ==
  {[index |-> b.index, previousHash |-> b.previousHash, timestamp |-> b.timestamp,
    transactions |-> b.transactions, nonce |-> b.nonce,
    hash |-> IF hashed THEN bvCalculateBlockHash(b) ELSE BadHash,
    typed |-> ty, bytes |-> by] :
     b \in BBody, hashed \in BOOLEAN, ty \in BOOLEAN, by \in {maxBlockSize, maxBlockSize + 1}}

BPrev == [hash : {"hp"}, timestamp : BlockStamps]

validateBlockStructure(block) == block.typed

validateBlockSize(block) == block.bytes <= maxBlockSize

validateTimestamp_allowEqual(block, previousBlock, t) ==
  IF block.timestamp > t + BLOCK_FUTURE_MS THEN FALSE
  ELSE IF previousBlock # <<>> /\ block.timestamp < previousBlock[1].timestamp THEN FALSE
  ELSE TRUE

validateTimestamp(block, previousBlock, t) ==
  IF block.timestamp > t + BLOCK_FUTURE_MS THEN FALSE
  ELSE IF previousBlock # <<>> /\ block.timestamp <= previousBlock[1].timestamp THEN FALSE
  ELSE TRUE

validateBlockHash(block) ==
  block.hash = bvCalculateBlockHash(block) /\ MeetsDifficulty(block.hash)

validatePreviousHash(block, previousBlock) == block.previousHash = previousBlock.hash

bvValidateTransaction(tx) ==
  IF tx.signature = "" \/ tx.senderPublicKey = "" THEN FALSE ELSE TRUE

\* The index of the first transaction validateTransaction refuses, 0 if none.
validateTransactions(txs) ==
  LET refused == {i \in DOMAIN txs : ~bvValidateTransaction(txs[i])}
  IN  IF refused = {} THEN 0 ELSE CHOOSE i \in refused : \A j \in refused : i <= j

Verdict(isValid, error, txId) == [isValid |-> isValid, error |-> error, txId |-> txId]

bvValidateBlock(block, previousBlock, t) ==
  IF ~validateBlockStructure(block) THEN Verdict(FALSE, "Invalid block structure", None)
  ELSE IF ~validateBlockSize(block) THEN Verdict(FALSE, "Block exceeds maximum size", None)
  ELSE IF ~validateTimestamp(block, previousBlock, t)
  THEN Verdict(FALSE, "Invalid block timestamp", None)
  ELSE IF ~validateBlockHash(block) THEN Verdict(FALSE, "Invalid block hash", None)
  ELSE IF previousBlock # <<>> /\ ~validatePreviousHash(block, previousBlock[1])
  THEN Verdict(FALSE, "Invalid previous block hash", None)
  ELSE IF validateTransactions(block.transactions) # 0
  THEN Verdict(FALSE, "Invalid transaction",
               block.transactions[validateTransactions(block.transactions)].id)
  ELSE Verdict(TRUE, None, None)

ValidateBlockCall ==
  /\ vOut = <<>>
  /\ vOut' = <<bvValidateBlock(vBlock[1], vPrev, vNow)>>
  /\ UNCHANGED <<vTx, vBlock, vPrev, vNow>>
  /\ ValFrame

InitBlockValidator ==
  /\ InitNoStateManager
  /\ InitPool
  /\ InitAdmit
  /\ InitConsensus
  /\ InitHead
  /\ vTx = <<>>
  /\ vBlock \in {<<b>> : b \in BBlock}
  /\ vPrev \in {<<>>} \cup {<<b>> : b \in BPrev}
  /\ vNow \in 0..MaxTicks
  /\ vOut = <<>>
  /\ InitHash
  /\ InitNode

NextBlockValidator == ValidateBlockCall

SpecBlockValidator == InitBlockValidator /\ [][NextBlockValidator]_vars

\* -------------------------------------------------------- CryptographicHash
\* Both classes hash with the same algorithm and iteration count.  A digest is
\* a number: the digest of an item is the item, the digest of the concatenation
\* of two digests is a number above every item, different for different pairs.
Items == 1..MaxItem

hash(item) == item

hashOfPair(left, right) ==
  MaxItem + 1 + ((left + right) * (left + right + 1)) \div 2 + right

\* The for loop of the first merkleHash from index i: the last hash of a level
\* of odd length is hashed with itself.
RECURSIVE PairUpFirst(_, _)
PairUpFirst(hashes, i) ==
  IF i > Len(hashes) THEN <<>>
  ELSE IF i + 1 > Len(hashes)
  THEN <<hashOfPair(hashes[i], hashes[i])>> \o PairUpFirst(hashes, i + 2)
  ELSE <<hashOfPair(hashes[i], hashes[i + 1])>> \o PairUpFirst(hashes, i + 2)

RECURSIVE ReduceFirst(_)
ReduceFirst(hashes) ==
  IF Len(hashes) > 1 THEN ReduceFirst(PairUpFirst(hashes, 1)) ELSE hashes[1]

merkleHashFirst(items) == ReduceFirst([i \in DOMAIN items |-> hash(items[i])])

\* The for loop of the second merkleHash: the last hash of a level of odd
\* length goes to the next level as it is.
RECURSIVE PairUpSecond(_, _)
PairUpSecond(level, i) ==
  IF i > Len(level) THEN <<>>
  ELSE IF i + 1 > Len(level)
  THEN <<level[i]>> \o PairUpSecond(level, i + 2)
  ELSE <<hashOfPair(level[i], level[i + 1])>> \o PairUpSecond(level, i + 2)

RECURSIVE ReduceSecond(_)
ReduceSecond(level) ==
  IF Len(level) > 1 THEN ReduceSecond(PairUpSecond(level, 1)) ELSE level[1]

merkleHashSecond(dataArray) == ReduceSecond([i \in DOMAIN dataArray |-> hash(dataArray[i])])

HashFrame ==
  UNCHANGED <<mItems, smVars, concVars, poolVars, admitVars, consVars, headVars, valVars,
              nodeVars>>

MerkleHashFirstCall ==
  /\ mFirst = <<>>
  /\ mFirst' = <<merkleHashFirst(mItems)>>
  /\ UNCHANGED mSecond
  /\ HashFrame

MerkleHashSecondCall ==
  /\ mSecond = <<>>
  /\ mSecond' = <<merkleHashSecond(mItems)>>
  /\ UNCHANGED mFirst
  /\ HashFrame

InitMerkle ==
  /\ InitNoStateManager
  /\ InitPool
  /\ InitAdmit
  /\ InitConsensus
  /\ InitHead
  /\ InitVal
  /\ mItems \in SeqsUpTo(Items, MaxItems) \ {<<>>}
  /\ mFirst = <<>>
  /\ mSecond = <<>>
  /\ InitNode

NextMerkle ==
  \/ MerkleHashFirstCall
  \/ MerkleHashSecondCall

SpecMerkle == InitMerkle /\ [][NextMerkle]_vars

\* ------------------------------------------- retrieval for block proposal
\* Everything modelled above this line, idle.
InitOlder ==
  /\ InitNoStateManager
  /\ InitPool
  /\ InitAdmit
  /\ InitConsensus
  /\ InitHead
  /\ InitVal
  /\ InitHash

DAY_MS == 86400000

\* Pool entries as far as retrieval reads them: fee, size and the admission
\* timestamp addTransaction stamps them with.
Entries == [fee : 0..MaxEntryFee, size : 1..MaxEntrySize, timestamp : 0..MaxStamp]

\* A Map iterates in insertion order, and entries are stamped with Date.now()
\* as they are inserted: the timestamps of a pool never decrease along it.
InAdmissionOrder(q) == \A i \in 1..Len(q) - 1 : q[i].timestamp <= q[i + 1].timestamp

Pools == {q \in SeqsUpTo(Entries, MaxEntries) : InAdmissionOrder(q)}

\* TransactionPool.getAllTransactions: Array.from(this.transactions.values()).
getAllTransactions(entries) == entries

\* The comparator (a, b) => b.fee / b.size - a.fee / a.size is negative, and a
\* stays before b, exactly when a pays more per byte; sizes are positive.
PaysMore(a, b) == a.fee * b.size > b.fee * a.size

\* Array.prototype.sort is stable: x goes behind every element that does not
\* pay less than it.
RECURSIVE InsertByFee(_, _)
InsertByFee(x, q) ==
  IF q = <<>> THEN <<x>>
  ELSE IF PaysMore(x, Head(q)) THEN <<x>> \o q
  ELSE <<Head(q)>> \o InsertByFee(x, Tail(q))

RECURSIVE SortByFee(_)
SortByFee(q) ==
  IF q = <<>> THEN <<>>
  ELSE InsertByFee(q[Len(q)], SortByFee(SubSeq(q, 1, Len(q) - 1)))

\* PerformanceOptimizer.optimizeMempool: the sort, then the expiry filter.
optimizeMempool(pool, t) ==
  LET Fresh(tx) == t - tx.timestamp < DAY_MS
  IN  SelectSeq(SortByFee(pool), Fresh)

ProposalFrame ==
  UNCHANGED <<smVars, concVars, poolVars, admitVars, consVars, headVars, valVars, hashVars,
              storageVars, coreVars, netVars>>

GetAllTransactionsCall ==
  /\ handed' = <<[op |-> "getAllTransactions", ret |-> getAllTransactions(poolEntries)]>>
  /\ UNCHANGED <<poolEntries, mempool>>
  /\ ProposalFrame

\* The optimizer sorts its own array, which nothing but its constructor and
\* this method assigns.
OptimizeMempoolCall ==
  /\ mempool' = optimizeMempool(mempool, now)
  /\ handed' = <<[op |-> "optimizeMempool", ret |-> mempool']>>
  /\ UNCHANGED poolEntries
  /\ ProposalFrame

InitRetrieval ==
  /\ InitOlder
  /\ poolEntries \in Pools
  /\ mempool = <<>>
  /\ handed = <<>>
  /\ InitStorage
  /\ InitCore
  /\ InitNet

NextRetrieval ==
  \/ GetAllTransactionsCall
  \/ OptimizeMempoolCall

SpecRetrieval == InitRetrieval /\ [][NextRetrieval]_vars

\* ------------------------------------------- ConsensusEngine construction
\* The arrays of validator keys and the thresholds the constructor is called
\* with.
ValidatorArrays == SeqsUpTo({"A", "B"}, MaxValidators) \ {<<>>}

\* Lines 14-16: the constructor throws when the threshold exceeds the length
\* of the array it was passed.
constructorAccepts(validatorArray, required) == ~(required > Len(validatorArray))

\* Lines 18-21: new Set(validators) keeps each key once.
InitConstructed ==
  /\ InitNoStateManager
  /\ InitPool
  /\ InitAdmit
  /\ InitHead
  /\ InitVal
  /\ InitHash
  /\ InitNode
  /\ \E validatorArray \in ValidatorArrays, required \in 1..Quorum :
       /\ constructorAccepts(validatorArray, required)
       /\ validators = {validatorArray[i] : i \in DOMAIN validatorArray}
       /\ requiredValidations = required
  /\ pendingBlocks = <<>>
  /\ validations = <<>>
  /\ validationsOrder = <<>>
  /\ finalized = {}
  /\ consLast = [op |-> "init", arg |-> <<>>, key |-> None, ok |-> TRUE, ret |-> None,
                 err |-> None]

SpecConstructed == InitConstructed /\ [][NextConsensus]_vars

\* ---------------------------------------------------------- BlockchainStorage
\* initialize and addBlock are async: a call runs until its next await and
\* other calls run while it is suspended.  The digest is a library: a hash is
\* the tuple of the fields it covers.  Mining (difficulty > 0) leaves the nonce
\* that meets the target, a function of the other fields.
StorageData == {"d1", "d2"}

storageCalculateHash(block) ==
  <<block.index, block.previousHash, block.timestamp, block.data, block.nonce>>

storageMineBlock(block) ==
  LET mined == [block EXCEPT !.nonce = @ + 1]
  IN  [mined EXCEPT !.hash = storageCalculateHash(mined)]

createBlock(index, data, previousHash, t) ==
  storageMineBlock([index |-> index, timestamp |-> t, data |-> data,
                    previousHash |-> previousHash, hash |-> <<>>, nonce |-> 0])

createGenesisBlock(t) == createBlock(0, "Genesis Block", <<"0">>, t)

isValidNewBlock(newBlock, previousBlock) ==
  /\ previousBlock.index + 1 = newBlock.index
  /\ previousBlock.hash = newBlock.previousHash
  /\ storageCalculateHash(newBlock) = newBlock.hash

isChainValid(chain) ==
  \A i \in 2..Len(chain) : isValidNewBlock(chain[i], chain[i - 1])

StorageFrame ==
  UNCHANGED <<smVars, concVars, poolVars, admitVars, consVars, headVars, valVars, hashVars,
              proposalVars, coreVars, netVars>>

\* A call is made.  initialize runs to the await of createGenesisBlock, or
\* returns when the chain is not empty; addBlock reads the latest block and
\* runs to the await of createBlock, or fails on the undefined latest block of
\* an empty chain.
StartInitialize ==
  /\ Len(storageCalls) < MaxStorageCalls
  /\ storageCalls' = Append(storageCalls,
       IF Len(storageChain) # 0
       THEN [op |-> "initialize", pc |-> "done", err |-> None]
       ELSE [op |-> "initialize", pc |-> "created", err |-> None,
             block |-> createGenesisBlock(now)])
  /\ UNCHANGED storageChain
  /\ StorageFrame

StartAddBlock ==
  \E data \in StorageData :
    /\ Len(storageCalls) < MaxStorageCalls
    /\ storageCalls' = Append(storageCalls,
         IF Len(storageChain) = 0
         THEN [op |-> "addBlock", pc |-> "done", err |-> "Failed to add block"]
         ELSE LET previousBlock == storageChain[Len(storageChain)]
              IN  [op |-> "addBlock", pc |-> "created", err |-> None,
                   previousBlock |-> previousBlock,
                   block |-> createBlock(previousBlock.index + 1, data, previousBlock.hash, now)])
    /\ UNCHANGED storageChain
    /\ StorageFrame

\* The call resumes with its block: initialize pushes it; addBlock pushes it
\* when it extends the block that was latest when the call began.  Both then
\* await persistChain.
ResumeCreated ==
  \E c \in DOMAIN storageCalls :
    LET call == storageCalls[c] IN
    /\ call.pc = "created"
    /\ IF call.op = "initialize" \/ isValidNewBlock(call.block, call.previousBlock)
       THEN /\ storageChain' = Append(storageChain, call.block)
            /\ storageCalls' = [storageCalls EXCEPT ![c].pc = "persisting"]
       ELSE /\ storageCalls' = [storageCalls EXCEPT ![c].pc = "done",
                                                    ![c].err = "Failed to add block"]
            /\ UNCHANGED storageChain
    /\ StorageFrame

\* persistChain returns, or fs.writeFile fails and the call throws.
ResumePersisted ==
  \E c \in DOMAIN storageCalls, written \in BOOLEAN :
    /\ storageCalls[c].pc = "persisting"
    /\ storageCalls' = [storageCalls EXCEPT
         ![c].pc = "done",
         ![c].err = IF written THEN None
                    ELSE IF storageCalls[c].op = "addBlock" THEN "Failed to add block"
                    ELSE "writeFile"]
    /\ UNCHANGED storageChain
    /\ StorageFrame

NextStorage ==
  \/ StartInitialize
  \/ StartAddBlock
  \/ ResumeCreated
  \/ ResumePersisted

SpecStorage == InitIdle /\ [][NextStorage]_vars

\* ------------------------------------------------------------- BlockchainCore
\* A transaction array is an object: a block built by minePendingTransactions
\* refers to the array pendingTransactions referred to at that moment.  A hash
\* is the tuple of what calculateHash reads when it is called; whether a hash
\* meets the difficulty target is an input.
CoreTx ==
  {[fromAddress |-> "a1", toAddress |-> "a2", amount |-> 1, signature |-> "sig"],
   [fromAddress |-> "a1", toAddress |-> "a2", amount |-> 0, signature |-> "sig"],
   [fromAddress |-> "", toAddress |-> "a2", amount |-> 1, signature |-> "sig"]}

\* The transaction objects are told apart by the call that created them.
CoreEntry(tx, c) ==
  [id |-> c, fromAddress |-> tx.fromAddress, toAddress |-> tx.toAddress, amount |-> tx.amount,
   signature |-> tx.signature]

miningReward == 100

validateTransactionSignature(transaction) == TRUE

coreCalculateHash(block, arrays) ==
  <<block.previousHash, block.timestamp, arrays[block.transactions], block.nonce>>

validateChain(chain, arrays) ==
  \A i \in 2..Len(chain) :
    /\ chain[i].hash = coreCalculateHash(chain[i], arrays)
    /\ chain[i].previousHash = chain[i - 1].hash

CoreFrame ==
  UNCHANGED <<smVars, concVars, poolVars, admitVars, consVars, headVars, valVars, hashVars,
              proposalVars, storageVars, netVars>>

\* addTransaction has no await: it runs from call to return in one piece.
CoreAddTransaction ==
  \E transaction \in CoreTx :
    LET err == IF transaction.fromAddress = "" \/ transaction.toAddress = ""
               THEN "Transaction must include from and to address"
               ELSE IF transaction.amount <= 0
               THEN "Transaction amount must be greater than 0"
               ELSE IF ~validateTransactionSignature(transaction)
               THEN "Invalid transaction signature"
               ELSE None
        c == Len(coreCalls) + 1
    IN  /\ Len(coreCalls) < MaxCoreCalls
        /\ coreCalls' = Append(coreCalls, [op |-> "addTransaction", pc |-> "done", err |-> err])
        /\ coreArrays' = IF err # None THEN coreArrays
                         ELSE [coreArrays EXCEPT ![corePending] = Append(@, CoreEntry(transaction, c))]
        /\ UNCHANGED <<coreChain, corePending>>
        /\ CoreFrame

\* minePendingTransactions up to its first await: the reward is pushed and the
\* block literal is evaluated up to the await of getLatestBlock.
StartMine ==
  LET c == Len(coreCalls) + 1
      rewardTx == [id |-> c, fromAddress |-> "null", toAddress |-> "miner",
                   amount |-> miningReward, signature |-> ""]
  IN  /\ Len(coreCalls) < MaxCoreCalls
      /\ coreArrays' = [coreArrays EXCEPT ![corePending] = Append(@, rewardTx)]
      /\ coreCalls' = Append(coreCalls,
           [op |-> "minePendingTransactions", pc |-> "latest", err |-> None,
            block |-> [timestamp |-> now, transactions |-> corePending, previousHash |-> <<>>,
                       hash |-> <<>>, nonce |-> 0],
            hashed |-> <<>>])
      /\ UNCHANGED <<coreChain, corePending>>
      /\ CoreFrame

\* One pass of mineBlock's loop up to its await: the nonce is raised and
\* calculateHash reads the block and its array.
TryNonce(call) ==
  LET block == [call.block EXCEPT !.nonce = @ + 1]
  IN  [call EXCEPT !.block = block, !.hashed = coreCalculateHash(block, coreArrays),
                   !.pc = "hashing"]

\* getLatestBlock has answered: the block gets its previousHash and mineBlock
\* begins; the empty hash does not meet the target.
MineResumeLatest ==
  \E c \in DOMAIN coreCalls :
    /\ coreCalls[c].pc = "latest"
    /\ coreCalls' = [coreCalls EXCEPT
         ![c] = TryNonce([@ EXCEPT !.block.previousHash = coreChain[Len(coreChain)].hash])]
    /\ UNCHANGED <<coreChain, coreArrays, corePending>>
    /\ CoreFrame

\* calculateHash has answered: the hash is assigned; mineBlock returns when it
\* meets the target and tries the next nonce when it does not.
MineResumeHash ==
  \E c \in DOMAIN coreCalls, meetsTarget \in BOOLEAN :
    LET call == [coreCalls[c] EXCEPT !.block.hash = coreCalls[c].hashed] IN
    /\ coreCalls[c].pc = "hashing"
    /\ meetsTarget \/ call.block.nonce < MaxMineSteps
    /\ coreCalls' = [coreCalls EXCEPT
         ![c] = IF meetsTarget THEN [call EXCEPT !.pc = "mined"] ELSE TryNonce(call)]
    /\ UNCHANGED <<coreChain, coreArrays, corePending>>
    /\ CoreFrame

\* mineBlock has returned: the block is pushed and pendingTransactions is a
\* new empty array.
MineResumeMined ==
  \E c \in DOMAIN coreCalls :
    /\ coreCalls[c].pc = "mined"
    /\ coreChain' = Append(coreChain, coreCalls[c].block)
    /\ coreArrays' = Append(coreArrays, <<>>)
    /\ corePending' = Len(coreArrays) + 1
    /\ coreCalls' = [coreCalls EXCEPT ![c].pc = "done"]
    /\ CoreFrame

NextCore ==
  \/ CoreAddTransaction
  \/ StartMine
  \/ MineResumeLatest
  \/ MineResumeHash
  \/ MineResumeMined

SpecCore == InitIdle /\ [][NextCore]_vars

\* ---------------------------------------------------------------- NetworkNode
\* The handlers of NEW_BLOCK and NEW_TRANSACTION messages.  A hash is <<>> for
\* the empty string, else <<z, body>>: z leading '0' characters, then the rest;
\* the string '0' is <<1>>.  broadcast reaches peers only and no peer is ever
\* registered, so it is left out.
NetTx ==
  {[id |-> "t1", fromAddress |-> "a1", toAddress |-> "a2", amount |-> 1, signature |-> "sig"],
   [id |-> "t2", fromAddress |-> "a2", toAddress |-> "a1", amount |-> 1, signature |-> "sig"],
   [id |-> "t3", fromAddress |-> "a1", toAddress |-> "a2", amount |-> 0, signature |-> "sig"]}

PeerHashes == {<<>>, <<0, <<"p">>>>, <<MaxDifficulty, <<"p">>>>, <<MaxDifficulty, <<"q">>>>}

\* hash.startsWith('0'.repeat(difficulty))
MeetsTarget(h, difficulty) == difficulty = 0 \/ (h # <<>> /\ h[1] >= difficulty)

isValidTransaction(transaction) ==
  /\ transaction.id # ""
  /\ transaction.fromAddress # ""
  /\ transaction.toAddress # ""
  /\ transaction.amount > 0
  /\ transaction.signature # ""

\* this.blockchain[this.blockchain.length - 1]?.hash || '0': an empty hash is
\* falsy, like a missing block.
LatestHashOrZero(blockchain) ==
  IF blockchain = <<>> \/ blockchain[Len(blockchain)].hash = <<>> THEN <<1>>
  ELSE blockchain[Len(blockchain)].hash

isValidBlock(blockchain, config, block) ==
  /\ block.index = Len(blockchain)
  /\ block.previousHash = LatestHashOrZero(blockchain)
  /\ MeetsTarget(block.hash, config.difficulty)
  /\ \A i \in DOMAIN block.transactions : isValidTransaction(block.transactions[i])

\* validateAndAddBlock has no await: test, push and filter are one piece.
validateAndAddBlock(blockchain, pending, config, block) ==
  LET InBlock(tx) == \E i \in DOMAIN block.transactions : block.transactions[i].id = tx.id
      Kept(tx) == ~InBlock(tx)
  IN  IF ~isValidBlock(blockchain, config, block)
      THEN [blockchain |-> blockchain, pending |-> pending, err |-> "Invalid block received"]
      ELSE [blockchain |-> Append(blockchain, block), pending |-> SelectSeq(pending, Kept),
            err |-> None]

\* findBlockHash: with difficulty 0 the loop is not entered and the result is
\* the empty string; otherwise a digest of the block that meets the target.
findBlockHash(block, difficulty) ==
  IF difficulty = 0 THEN <<>>
  ELSE <<difficulty, <<block.index, block.timestamp,
                        [i \in DOMAIN block.transactions |-> block.transactions[i].id],
                        block.previousHash>>>>

\* The block literal of mineBlock, lines 98-105.
NewBlock(blockchain, pending, config, t) ==
  [index |-> Len(blockchain), timestamp |-> t,
   transactions |-> SubSeq(pending, 1, IF Len(pending) < config.maxTransactionsPerBlock
                                       THEN Len(pending) ELSE config.maxTransactionsPerBlock),
   previousHash |-> LatestHashOrZero(blockchain), hash |-> <<>>, nonce |-> 0]

\* The blocks peers send.
PeerBlocks ==
  [index : 0..MaxPerBlock, timestamp : {0},
   transactions : {<<>>} \cup {<<tx>> : tx \in NetTx},
   previousHash : {<<1>>, LatestHashOrZero(netBlockchain)} \cup PeerHashes,
   hash : PeerHashes, nonce : {0}]

NetFrame ==
  UNCHANGED <<smVars, concVars, poolVars, admitVars, consVars, headVars, valVars, hashVars,
              proposalVars, storageVars, coreVars>>

InstallBlock(r, block) ==
  /\ netBlockchain' = r.blockchain
  /\ netPending' = r.pending
  /\ netLast' = IF r.err = None THEN <<[accepted |-> TRUE, block |-> block]>>
                ELSE <<[accepted |-> FALSE]>>

\* A NEW_BLOCK message: handleMessage calls validateAndAddBlock.
NewBlockMessage ==
  \E block \in PeerBlocks :
    LET r == validateAndAddBlock(netBlockchain, netPending, netConfig, block) IN
    /\ Len(netCalls) < MaxMessages
    /\ InstallBlock(r, block)
    /\ netCalls' = Append(netCalls, [type |-> "NEW_BLOCK", pc |-> "done", err |-> r.err])
    /\ UNCHANGED netConfig
    /\ NetFrame

\* A NEW_TRANSACTION message: validateAndAddTransaction, and with a full
\* pending list mineBlock up to its await of findBlockHash.
NewTransactionMessage ==
  \E transaction \in NetTx :
    LET pending == Append(netPending, transaction) IN
    /\ Len(netCalls) < MaxMessages
    /\ IF ~isValidTransaction(transaction)
       THEN /\ netCalls' = Append(netCalls, [type |-> "NEW_TRANSACTION", pc |-> "done",
                                             err |-> "Invalid transaction received"])
            /\ UNCHANGED netPending
       ELSE /\ netPending' = pending
            /\ netCalls' = Append(netCalls,
                 IF Len(pending) >= netConfig.maxTransactionsPerBlock
                 THEN [type |-> "NEW_TRANSACTION", pc |-> "hashing", err |-> None,
                       newBlock |-> NewBlock(netBlockchain, pending, netConfig, now)]
                 ELSE [type |-> "NEW_TRANSACTION", pc |-> "done", err |-> None])
    /\ netLast' = <<>>
    /\ UNCHANGED <<netConfig, netBlockchain>>
    /\ NetFrame

\* findBlockHash has answered: the block gets its hash and goes through
\* validateAndAddBlock.
ResumeMineBlock ==
  \E c \in DOMAIN netCalls :
    LET block == [netCalls[c].newBlock EXCEPT
                    !.hash = findBlockHash(netCalls[c].newBlock, netConfig.difficulty)]
        r == validateAndAddBlock(netBlockchain, netPending, netConfig, block)
    IN  /\ netCalls[c].pc = "hashing"
        /\ InstallBlock(r, block)
        /\ netCalls' = [netCalls EXCEPT ![c] = [type |-> "NEW_TRANSACTION", pc |-> "done",
                                                err |-> r.err]]
        /\ UNCHANGED netConfig
        /\ NetFrame

\* The configurations a node is constructed with.
InitNetwork ==
  /\ InitOlder
  /\ InitProposal
  /\ InitStorage
  /\ InitCore
  /\ netConfig \in [difficulty : 0..MaxDifficulty, maxTransactionsPerBlock : 1..MaxPerBlock]
  /\ netBlockchain = <<>>
  /\ netPending = <<>>
  /\ netCalls = <<>>
  /\ netLast = <<>>

NextNetwork ==
  \/ NewBlockMessage
  \/ NewTransactionMessage
  \/ ResumeMineBlock

SpecNetwork == InitNetwork /\ [][NextNetwork]_vars

\* ------------------------------------------------------ StateManager claims
Sum(view) == view["a1"].balance + view["a2"].balance
StoredSum == Sum([a \in Addr |-> Stored(a)])
VisibleSum == Sum([a \in Addr |-> Visible(a)])

\* Every cached object equals the store's record of its address.
Coherent == \A a \in DOMAIN stateCache : a \in DOMAIN db /\ heap[stateCache[a]] = db[a]

Applied == last.op = "applyTransaction"
Touched(tx) == {tx.from, tx.to}

\* C1: a successful applyTransaction, called in a state whose cache agrees with
\* the store, lowers the sum of all balances (stored, and as getAccount shows
\* them) by exactly the transaction's fee and leaves the cache in agreement
\* with the store; so after any sequence of successful calls the sum is the
\* initial sum minus the fees.
C1_Conservation ==
  [][(Coherent /\ Applied' /\ last'.err = None) =>
       /\ StoredSum' = StoredSum - last'.arg.fee
       /\ VisibleSum' = VisibleSum - last'.arg.fee
       /\ Coherent']_smVars

C1_Witness ==
  /\ Applied /\ last.err = None
  /\ last.arg.from = last.arg.to /\ last.arg.fee > 0 /\ last.arg.value > 0

\* C2: applyTransaction called when the sender's balance is below value + fee
\* fails, and the store and what getAccount shows for sender and recipient are
\* as before; an object that was cached keeps its value.
C2_InsufficientUnchanged ==
  [][(Applied' /\ Visible(last'.arg.from).balance < last'.arg.value + last'.arg.fee) =>
       /\ last'.err # None
       /\ db' = db
       /\ \A a \in Touched(last'.arg) :
            /\ Visible(a)' = Visible(a)
            /\ a \in DOMAIN stateCache => a \in DOMAIN stateCache']_smVars

C2_Witness ==
  /\ Applied /\ last.err = "Insufficient balance"
  /\ last.arg.from \in DOMAIN stateCache /\ last.arg.to \in DOMAIN stateCache
  /\ last.arg.from # last.arg.to

\* The caller's block holds transactions of positive amount only.
PositiveBlock == \A i \in 1..Len(blk.transactions) : blk.transactions[i].value > 0

\* C3: in every state reached by committing and reverting a block of
\* positive-amount transactions, calls that fail included, every account
\* getAccount returns has balance >= 0 and nonce >= 0.
C3_NonNegative ==
  PositiveBlock => \A a \in Addr : Visible(a).balance >= 0 /\ Visible(a).nonce >= 0

BlockTouched == {blk.transactions[i].from : i \in 1..Len(blk.transactions)}
                  \cup {blk.transactions[i].to : i \in 1..Len(blk.transactions)}

\* C4: a revertBlock(b.hash) that immediately follows a successful
\* commitBlock(b) of a block of positive-amount transactions, the store not
\* failing during the revert, succeeds and restores every account the block
\* touches to its value before the commit, in the store and as getAccount
\* shows it.
C4_RoundTrip ==
  [][(/\ PositiveBlock
      /\ last.op = "commitBlock" /\ last.err = None
      /\ last'.op = "revertBlock" /\ last'.arg = blk.hash
      /\ last'.err \notin StoreErrors) =>
       /\ last'.err = None
       /\ \A a \in BlockTouched :
            /\ Stored(a)' = pre[a].stored
            /\ Visible(a)' = pre[a].visible]_smVars

\* C5: a commitBlock of positive-amount transactions that fails because a
\* transaction cannot be applied (its sender's balance is insufficient) leaves
\* every account as before, in the store and as getAccount shows it.
C5_CommitAllOrNothing ==
  [][(PositiveBlock /\ last'.op = "commitBlock" /\ last'.err = "Insufficient balance") =>
       /\ \A a \in Addr : Stored(a)' = Stored(a) /\ Visible(a)' = Visible(a)]_smVars

\* C6: an applyTransaction of a positive amount that throws leaves sender and
\* recipient as before, in the store and as getAccount shows them.
C6_ApplyAllOrNothing ==
  [][(Applied' /\ last'.arg.value > 0 /\ last'.err # None) =>
       \A a \in Touched(last'.arg) : Stored(a)' = Stored(a) /\ Visible(a)' = Visible(a)]_smVars

\* C7: a commitBlock that fails while applying a transaction leaves the
\* current-block pointer, the block cache and the stored blocks unchanged.
C7_FailedCommitFrame ==
  [][(last'.op = "commitBlock" /\ last'.err \notin {None, "db.saveBlock"}) =>
       /\ currentBlock' = currentBlock
       /\ blockCache' = blockCache
       /\ blockStore' = blockStore]_smVars

\* C8: when two concurrently started applyTransaction calls have both
\* returned, each a transfer of a positive amount between two different
\* addresses, the accounts (stored, and as getAccount shows them) are those
\* that running the two calls one after the other, in one order or the other,
\* gives.
C8_Serialized ==
  (AllDone /\ \A p \in Procs : calls[p].tx.value > 0 /\ calls[p].tx.from # calls[p].tx.to)
    => \/ AccountsView = SerialView("p1", "p2")
       \/ AccountsView = SerialView("p2", "p1")

C7_Witness ==
  /\ last.op = "commitBlock" /\ last.err = "Insufficient balance"
  /\ Len(blk.transactions) = 2
  /\ currentBlock = Genesis /\ blockCache = {} /\ DOMAIN blockStore = {Genesis}
  /\ \E a \in Addr : pre[a].stored # Stored(a)

\* --------------------------------------------------- TransactionPool claims
Rejections ==
  {"duplicate", "Invalid transaction format", "Transaction signature verification failed",
   "Insufficient balance", "Transaction size exceeds limit"}

\* C9: the event-emitting pool never holds more than maxSize entries.
C9_PoolBounded == getPoolSize(transactions) <= MaxSize

\* C10: an addTransaction that refuses the transaction (duplicate, format,
\* signature, balance, size) leaves the pool's entries as they were; in the
\* second pool, an addTransaction that throws leaves its entries as they were.
C10_RejectedAddFrame ==
  [][ /\ (poolLast'.op = "addTransaction" /\ poolLast'.err \in Rejections)
           => transactions' = transactions
      /\ (poolLast'.op = "addTransaction2" /\ poolLast'.err # None)
           => transactions2' = transactions2 ]_vars

\* A full pool with an entry past the max age has just refused a transaction.
C10_Witness ==
  /\ poolLast.op = "addTransaction"
  /\ poolLast.err = "Insufficient balance"
  /\ getPoolSize(transactions) >= MaxSize
  /\ \E h \in DOMAIN transactions : now - transactions[h].timestamp > MAX_AGE_MS

\* The sum of the amounts of the sender's entries in the event-emitting pool.
RECURSIVE PendingSum(_, _, _)
PendingSum(txs, keys, sender) ==
  IF keys = {} THEN 0
  ELSE LET h == CHOOSE k \in keys : TRUE
       IN  (IF txs[h].fromAddress = sender THEN txs[h].amount ELSE 0)
             + PendingSum(txs, keys \ {h}, sender)

\* C11: in every reachable pool, an addTransaction whose sender's balance is
\* below the transaction's amount plus the amounts of the sender's entries
\* already in the pool is refused (the transactions carry no fee, so the
\* fees add nothing).
C11_PendingAdditive ==
  \A tx \in PoolTx, chain \in ChainAnswers, listenerThrows \in BOOLEAN :
    chain.balance < tx.amount + PendingSum(transactions, DOMAIN transactions, tx.fromAddress)
      => addTransaction(transactions, tx, chain, now, listenerThrows).ret = FALSE

\* C12: when two addTransaction calls from one sender, for two different
\* transactions each of which the sender's balance covers but which it does
\* not cover together, have both returned, at most one has returned true.
C12_AtomicPerSender ==
  (/\ AddsDone
   /\ adds["p1"].tx.fromAddress = adds["p2"].tx.fromAddress
   /\ getTransactionHash(adds["p1"].tx) # getTransactionHash(adds["p2"].tx)
   /\ \A p \in Procs : balance[adds[p].tx.fromAddress] >= adds[p].tx.amount
   /\ balance[adds["p1"].tx.fromAddress] < adds["p1"].tx.amount + adds["p2"].tx.amount)
    => ~(adds["p1"].ret = TRUE /\ adds["p2"].ret = TRUE)

\* C13: when two addTransaction calls for the same transaction have both
\* returned, at most one has returned true and emitted 'transaction'.
C13_AdmittedOnce ==
  (AddsDone /\ adds["p1"].tx = adds["p2"].tx)
    => ~(\A p \in Procs : adds[p].ret = TRUE /\ "transaction" \in adds[p].events)

\* C14: an addTransaction of the event-emitting pool returns a boolean and,
\* when it refuses, emits 'error'; an addTransaction of the second pool does
\* not throw.
C14_RejectsWithoutThrowing ==
  [][ /\ (poolLast'.op = "addTransaction" /\ poolLast'.ret = FALSE) => "error" \in poolLast'.events
      /\ (poolLast'.op = "addTransaction2") => poolLast'.err = None ]_vars

\* ---------------------------------------------------- ConsensusEngine claims
QuorumReached ==
  {h \in DOMAIN pendingBlocks :
     h \in DOMAIN validations /\ Cardinality(validations[h]) >= requiredValidations}

Returned == {consLast.ret[i] : i \in DOMAIN consLast.ret}

\* C15: getFinalizedBlocks returns exactly the pending blocks whose attestation
\* set has at least requiredValidations keys, each once, removes exactly those
\* blocks and their attestation sets, and leaves every other pending block and
\* its attestation set as they were.
C15_FinalizedIffQuorum ==
  [][ consLast'.op = "getFinalizedBlocks" =>
        /\ Returned' = {pendingBlocks[h] : h \in QuorumReached}
        /\ Len(consLast'.ret) = Cardinality(QuorumReached)
        /\ DOMAIN pendingBlocks' = DOMAIN pendingBlocks \ QuorumReached
        /\ DOMAIN validations' = DOMAIN validations \ QuorumReached
        /\ \A h \in DOMAIN pendingBlocks' :
             pendingBlocks'[h] = pendingBlocks[h] /\ validations'[h] = validations[h] ]_vars

\* A sweep that returned one block and left another, attested below the
\* quorum, pending.
C15_Witness ==
  /\ consLast.op = "getFinalizedBlocks"
  /\ Len(consLast.ret) = 1
  /\ \E h \in DOMAIN pendingBlocks : validations[h] # {}

\* C16: every attestation set holds validator keys only, and a validateBlock
\* call with a key outside the validator set returns false and leaves every
\* attestation set as it was, whatever the signature check answers.
C16_AttestersAreValidators ==
  [][ /\ \A h \in DOMAIN validations' : validations'[h] \subseteq validators'
      /\ (consLast'.op = "validateBlock" /\ consLast'.key \notin validators)
            => (consLast'.ret = FALSE /\ validations' = validations) ]_vars

\* A correctly signed attestation of a pending block by a key that is not a
\* validator, refused.
C16_Witness ==
  /\ consLast.op = "validateBlock"
  /\ consLast.key = "X"
  /\ consLast.ok
  /\ consLast.arg \in DOMAIN pendingBlocks
  /\ consLast.err = "Unknown validator"
  /\ \E h \in DOMAIN validations : validations[h] # {}

ScenarioX == [prevHash |-> Genesis, timestamp |-> 0, transactions |-> <<>>, height |-> 1,
              proposer |-> "A"]

OnlyXPending(attested) ==
  /\ validators = {"A", "B", "C"}
  /\ requiredValidations = 2
  /\ DOMAIN pendingBlocks = {calculateBlockHash(ScenarioX)}
  /\ pendingBlocks[calculateBlockHash(ScenarioX)] = ScenarioX
  /\ DOMAIN validations = {calculateBlockHash(ScenarioX)}
  /\ validations[calculateBlockHash(ScenarioX)] = attested

\* C17: validateBlock returns true exactly when the attestation is accepted
\* and the block's attestation set then holds at least requiredValidations
\* keys; an attestation by a key already in the set changes nothing.  With
\* validators {A, B, C} and quorum 2: after X is proposed the attestation by A
\* returns false, the one by B returns true, and getFinalizedBlocks then
\* returns [X].
C17_QuorumOfDistinct ==
  [][ /\ consLast'.op = "validateBlock" =>
           /\ consLast'.ret =
                (/\ consLast'.err = None
                 /\ Cardinality(validations'[consLast'.arg]) >= requiredValidations)
           /\ consLast'.err = None =>
                validations' = [validations EXCEPT ![consLast'.arg] = @ \cup {consLast'.key}]
           /\ (/\ consLast'.arg \in DOMAIN validations
               /\ consLast'.key \in validations[consLast'.arg]) => validations' = validations
           /\ (OnlyXPending({}) /\ consLast'.err = None /\ consLast'.key = "A")
                => consLast'.ret = FALSE
           /\ (OnlyXPending({"A"}) /\ consLast'.err = None /\ consLast'.key = "B")
                => consLast'.ret = TRUE
      /\ (consLast'.op = "getFinalizedBlocks" /\ OnlyXPending({"A", "B"}))
           => consLast'.ret = <<ScenarioX>> ]_vars

\* The end of the scenario: X, attested by A and then B, has been returned by
\* getFinalizedBlocks and nothing is pending.
C17_Witness ==
  /\ validators = {"A", "B", "C"}
  /\ requiredValidations = 2
  /\ consLast.op = "getFinalizedBlocks"
  /\ consLast.ret = <<ScenarioX>>
  /\ finalized = {ScenarioX}
  /\ DOMAIN pendingBlocks = {}

\* C18: of the blocks getFinalizedBlocks has returned, no two with the same
\* prevHash are different blocks.
C18_OneBlockPerParent ==
  \A b1 \in finalized, b2 \in finalized :
    b1.prevHash = b2.prevHash => calculateBlockHash(b1) = calculateBlockHash(b2)

\* C19: a block getFinalizedBlocks has returned is not pending again.
C19_FinalizedIsTerminal ==
  \A b \in finalized : calculateBlockHash(b) \notin DOMAIN pendingBlocks

\* C20: proposeBlock of a block whose proposer is not a validator returns
\* false and leaves the pending blocks and the attestation sets as they were.
C20_ProposerMustBeValidator ==
  [][ (consLast'.op = "proposeBlock" /\ consLast'.arg.proposer \notin validators)
        => /\ consLast'.ret = FALSE
           /\ pendingBlocks' = pendingBlocks
           /\ validations' = validations ]_vars

\* C21: proposeBlock of a block whose hash is already pending reports failure,
\* leaves the pending blocks as they were and emits no 'blockProposed'.
C21_PendingProposalRejected ==
  [][ (headLast'.op = "proposeBlock" /\ headLast'.arg.hash \in DOMAIN headPending)
        => /\ headLast'.ret = FALSE
           /\ headLast'.events = <<>>
           /\ headPending' = headPending ]_vars

\* C22: a validateBlock call that is refused changes no attestation set and no
\* pending block; an accepted call changes no pending block and no attestation
\* set other than the one of the hash it names.
C22_AttestIsLocal ==
  [][ consLast'.op = "validateBlock" =>
        /\ pendingBlocks' = pendingBlocks
        /\ consLast'.err # None => validations' = validations
        /\ consLast'.err = None =>
             /\ DOMAIN validations' = DOMAIN validations
             /\ \A h \in DOMAIN validations \ {consLast'.arg} :
                  validations'[h] = validations[h] ]_vars

\* An attestation with a signature that does not verify, refused while the
\* block it names and another pending block both hold attestations.
C22_Witness ==
  /\ consLast.op = "validateBlock"
  /\ consLast.err = "Invalid signature"
  /\ consLast.key \notin validations[consLast.arg]
  /\ validations[consLast.arg] # {}
  /\ \E h \in DOMAIN validations \ {consLast.arg} : validations[h] # {}

\* ----------------------------------------------------- validator claims
\* C26: validateTransaction reports the first failing check in the order:
\* required fields, size, timestamp, minimum fee, then the amount and balance,
\* then the signature, then the in-block checks.
C26_ChecksInOrder ==
  vOut # <<>> =>
    vOut[1].error =
      FirstError(<<validateBasics(vTx, vNow), validateAmount(vTx), validateSignature(vTx),
                   IF vBlock = <<>> THEN None ELSE validateInBlock(vTx, vBlock[1])>>)

\* C27: with a containing block, validateTransaction accepts only a transaction
\* whose timestamp is not after the block's and whose id occurs exactly once
\* among the block's transactions.
C27_OnceInBlock ==
  (vOut # <<>> /\ vBlock # <<>> /\ vOut[1].ok) =>
    /\ vTx.timestamp <= vBlock[1].timestamp
    /\ Occurrences(vBlock[1].transactions, vTx.id) = 1

\* C23: validateBlock on a block whose stored hash differs from the hash of
\* its fields reports the hash error, whatever the other fields are.
C23_HashErrorFirst ==
  (vOut # <<>> /\ vBlock[1].hash # bvCalculateBlockHash(vBlock[1]))
    => (~vOut[1].isValid /\ vOut[1].error = "Invalid block hash")

\* C24: validateBlock with a previousBlock accepts a block only if its
\* previousHash is the previous block's hash, its timestamp is greater than the
\* previous block's and not beyond the future limit.
C24_LinkedAndLater ==
  (vOut # <<>> /\ vPrev # <<>> /\ vOut[1].isValid) =>
    /\ vBlock[1].previousHash = vPrev[1].hash
    /\ vBlock[1].timestamp > vPrev[1].timestamp
    /\ vBlock[1].timestamp <= vNow + BLOCK_FUTURE_MS

\* A block accepted one millisecond after its previous block, at the future
\* limit.
C24_Witness ==
  /\ vOut # <<>>
  /\ vPrev # <<>>
  /\ vOut[1].isValid
  /\ vBlock[1].timestamp = vPrev[1].timestamp + 1
  /\ vBlock[1].timestamp = vNow + BLOCK_FUTURE_MS
  /\ vBlock[1].transactions # <<>>

\* C25: validateBlock accepts a block only if TransactionValidator's
\* validateTransaction, called with the block, accepts each of its
\* transactions.
C25_DelegatesToTransactionValidator ==
  (vOut # <<>> /\ vOut[1].isValid) =>
    \A i \in DOMAIN vBlock[1].transactions :
      tvValidateTransaction(vBlock[1].transactions[i], vBlock, vNow).ok

\* ------------------------------------------------ CryptographicHash claims
\* The Merkle root with the last hash of an odd level carried forward.
MerkleLevel(level) ==
  [k \in 1..((Len(level) + 1) \div 2) |->
     IF 2 * k <= Len(level) THEN hashOfPair(level[2 * k - 1], level[2 * k])
     ELSE level[2 * k - 1]]

RECURSIVE MerkleRoot(_)
MerkleRoot(level) == IF Len(level) = 1 THEN level[1] ELSE MerkleRoot(MerkleLevel(level))

\* C28: for a non-empty array, each merkleHash returns the Merkle root that
\* carries the last hash of an odd level forward unchanged, and the two
\* implementations return the same digest.
C28_MerkleCarryForward ==
  /\ mFirst # <<>> => mFirst[1] = MerkleRoot([i \in DOMAIN mItems |-> hash(mItems[i])])
  /\ mSecond # <<>> => mSecond[1] = MerkleRoot([i \in DOMAIN mItems |-> hash(mItems[i])])
  /\ (mFirst # <<>> /\ mSecond # <<>>) => mFirst = mSecond

\* --------------------------------------------- StateManager claims, continued
\* C29: a caller changing the Account object getAccount returned, with no
\* updateAccount, does not change what getAccount returns for any address.
C29_AccessByCopy ==
  [][ (last'.op = "mutate" /\ last'.err = None)
        => \A a \in Addr : VisibleIn(Machine', a) = VisibleIn(Machine, a) ]_vars

\* C30: every account held in the cache equals the store's record for its
\* address.
C30_CacheNeverAuthoritative ==
  \A a \in DOMAIN stateCache : a \in DOMAIN db /\ heap[stateCache[a]] = db[a]


\* ------------------------------------------------------------- claim C31
\* C31: committed blocks are immutable.  No step of the StateManager changes
\* the transactions of a block it holds in its block cache, so the cached
\* block lists its transactions in the order it was committed with.
C31_CommittedBlockImmutable ==
  [][blk.hash \in blockCache => blk'.transactions = blk.transactions]_vars

\* ------------------------------------------------------------- claim C32
\* C32: every successful applyTransaction(tx) raises the nonce getAccount
\* shows for tx.from by exactly 1 and leaves every other account's nonce as it
\* was, self-transfers and senders unknown to cache and store included.
C32_NonceStepsByOne ==
  [][(Applied' /\ last'.err = None) =>
       \A a \in Addr :
         Visible(a)'.nonce = Visible(a).nonce + (IF a = last'.arg.from THEN 1 ELSE 0)]_smVars

\* ------------------------------------------------------------- claim C33
FeeRateOrdered(q) ==
  \A i, j \in 1..Len(q) :
    i < j => \/ PaysMore(q[i], q[j])
             \/ ~PaysMore(q[j], q[i]) /\ q[i].timestamp <= q[j].timestamp

\* C33: the sequence a retrieval hands out for block proposal is sorted by fee
\* per byte, highest first, and entries paying the same per byte come in the
\* order of their admission.
C33_ProposalOrder == handed # <<>> => FeeRateOrdered(handed[1].ret)

\* ------------------------------------------------------------- claim C34
\* C34: a transaction in the event-emitting pool has the signed fields it was
\* submitted with: the content hash of the entry getTransaction returns is the
\* hash of the submitted transaction, which is the key it is stored under.
C34_PoolKeepsContent ==
  \A h \in DOMAIN transactions : getTransactionHash(transactions[h]) = h

\* ------------------------------------------------------------- claim C35
\* C35: a commitBlock that sets the current-block pointer sets it to a block
\* whose parent hash is the hash of the block that was current, and a
\* successful revertBlock(h) leaves the pointer at the parent of h, which was
\* current before h was committed.
C35_CommittedChainLinked ==
  [][/\ (last'.op = "commitBlock" /\ last'.err = None)
        => (currentBlock' = blk.hash /\ blk.parentHash = currentBlock)
     /\ (last'.op = "revertBlock" /\ last'.err = None /\ last'.arg = blk.hash)
        => currentBlock' = blk.parentHash]_smVars

\* ------------------------------------------------------------- claim C36
\* C36: a block the chain-head engine finalizes has as previousHash the chain
\* head of the moment before its finalization, so a block proposed against an
\* older head is not finalized once another block has been; finalizeBlock of
\* a hash that is not pending throws and leaves chainHead and currentBlock.
C36_FinalizedExtendsHead ==
  [][ headLast'.op = "finalizeBlock" =>
        IF headLast'.err = None
        THEN headCurrent'[1].previousHash = chainHead
        ELSE chainHead' = chainHead /\ headCurrent' = headCurrent ]_vars

\* ------------------------------------------------------------- claim C37
\* C37: an engine its constructor accepted requires no more attestations than
\* it has distinct validator keys, so a quorum can be reached.
C37_QuorumReachable == requiredValidations <= Cardinality(validators)

\* ------------------------------------------------------------- claim C38
\* C38: however initialize and addBlock calls interleave, the chain of a
\* BlockchainStorage has one genesis block, every later block has its
\* position as index and the hash of the block before it as previousHash, and
\* isChainValid() holds.
C38_StorageChainValid ==
  /\ Cardinality({i \in DOMAIN storageChain : storageChain[i].index = 0}) <= 1
  /\ \A i \in 2..Len(storageChain) :
       /\ storageChain[i].index = i - 1
       /\ storageChain[i].previousHash = storageChain[i - 1].hash
  /\ isChainValid(storageChain)

\* ------------------------------------------------------------- claim C39
CoreQuiet == \A c \in DOMAIN coreCalls : coreCalls[c].pc = "done"

\* The blocks of the chain that hold the transaction object created by call c.
BlocksHolding(c) ==
  {i \in DOMAIN coreChain :
     \E k \in DOMAIN coreArrays[coreChain[i].transactions] :
       coreArrays[coreChain[i].transactions][k].id = c}

\* C39: when the addTransaction and minePendingTransactions calls made on a
\* BlockchainCore have all returned, however they interleaved, validateChain()
\* holds and no transaction is in more than one block.
C39_CoreChainValid ==
  CoreQuiet =>
    /\ validateChain(coreChain, coreArrays)
    /\ \A c \in DOMAIN coreCalls : Cardinality(BlocksHolding(c)) <= 1

\* ------------------------------------------------------------- claim C40
NetLinked ==
  \A i \in DOMAIN netBlockchain :
    /\ netBlockchain[i].index = i - 1
    /\ netBlockchain[i].previousHash = IF i = 1 THEN <<1>> ELSE netBlockchain[i - 1].hash

NetPendingFiltered ==
  (netLast # <<>> /\ netLast[1].accepted) =>
    \A k \in DOMAIN netPending, i \in DOMAIN netLast[1].block.transactions :
      netPending[k].id # netLast[1].block.transactions[i].id

\* C40: however NEW_BLOCK and NEW_TRANSACTION messages arrive and interleave,
\* each block of the node's chain has its position as index and the hash of
\* the block before it ('0' for the first) as previousHash, and right after a
\* block is accepted no pending transaction has the id of one of the block's
\* transactions.
C40_LedgerInvariants == NetLinked /\ NetPendingFiltered

====
